---------------------------- MODULE Spec2Model ----------------------------
(***************************************************************************)
(* Verification model of the TPCL printer driver (rastertotpcl).           *)
(*                                                                         *)
(* The module holds several specifications over one set of variables:      *)
(*   SpecPage    the raster page pipeline of tpcl-driver.c                 *)
(*               (StartPage / WriteLine / EndPage) with small lines;       *)
(*   SpecFill    the same WriteLine on a TOPIX band that is close to the   *)
(*               0xFFFF limit of the compression buffer;                   *)
(*   SpecNibble  the same WriteLine in nibble mode over all byte values;   *)
(*   Spec        tpcl_rstartjob_cb and the process-wide geometry cache;    *)
(*   SpecState   the geometry tracker of tpcl-state.c and its state file;  *)
(*   SpecDither  the dither matrix builders of dithering.c.                *)
(***************************************************************************)
EXTENDS Integers, Sequences, FiniteSets, TLC

VARIABLES
  \* ---- raster job (tpcl_job_t and the raster header it was started with)
  header,          \* options->header: cupsBitsPerPixel, cupsBytesPerLine, ...
  jobdata,         \* "none" | "set" | "freed": papplJobGetData(job)
  gmode,           \* tpcl_job->gmode
  buffer_len,      \* tpcl_job->buffer_len
  buffer,          \* tpcl_job->buffer[0 .. buffer_len-1]
  last_buffer,     \* tpcl_job->last_buffer
  comp_buffer,     \* tpcl_job->comp_buffer[0 .. comp_buffer_ptr-1]
  y_offset,        \* tpcl_job->y_offset
  device,          \* the commands written to the device, in order, from
                   \* the last StartJob or StartPage on
  page,            \* "closed" | "open": between StartPage and EndPage
  line_y,          \* y of the next line the host will pass to WriteLine
  ret,             \* return value of the last callback
  \* ---- observations of the last tpcl_rwriteline_cb call
  buffer_used,     \* its local buffer_used (line 1796), -1 if not computed
  topix_prev,      \* last_buffer as tpcl_topix_compress read it
  topix_out,       \* the bytes tpcl_topix_compress appended
  topix_last,      \* last_buffer as tpcl_topix_compress left it
  line_in,         \* its arguments y and line
  \* ---- label geometry state (tpcl-driver.c globals, state files)
  g_printer_state, \* the process-wide cache of tpcl-driver.c
  files,           \* printer name -> its state file in TPCL_STATE_DIR
  geo,             \* observations of the last geometry check
  hist,            \* what has happened to each printer's record so far
  \* ---- dither matrix builders
  dith,
  \* ---- tpcl_status_cb: its position, its locals and the device
  stat,
  \* ---- concurrent tpcl_state_check_and_update calls: thread -> position
  \* and locals
  checks,
  \* ---- the byte order of the machine the driver was built for
  host

jobVars  == <<header, jobdata, gmode, buffer_len, buffer, last_buffer,
              comp_buffer, y_offset, device, page, line_y, ret>>
topixObs == <<buffer_used, topix_prev, topix_out, topix_last>>
lineVars == <<topixObs, line_in>>
geoVars  == <<g_printer_state, files, geo, hist>>
sideVars == <<stat, checks, host>>
vars     == <<jobVars, lineVars, geoVars, dith, sideVars>>

-----------------------------------------------------------------------------
(***************************************************************************)
(* Bytes and the C bit operators on unsigned char.                         *)
(***************************************************************************)
Byte == 0..255

RECURSIVE BitOp(_, _, _, _)
\* op is the truth table <<f(0,0), f(0,1), f(1,0), f(1,1)>>, k the bits left
BitOp(op, a, b, k) ==
  IF k = 0 THEN 0
  ELSE op[2 * (a % 2) + (b % 2) + 1] + 2 * BitOp(op, a \div 2, b \div 2, k - 1)

BitXor(a, b) == IF a = b THEN 0 ELSE IF a = 0 THEN b ELSE IF b = 0 THEN a
                ELSE BitOp(<<0, 1, 1, 0>>, a, b, 8)
BitOr(a, b)  == IF a = b \/ b = 0 THEN a ELSE IF a = 0 THEN b
                ELSE BitOp(<<0, 1, 1, 1>>, a, b, 8)
BitAnd(a, b) == IF a = b THEN a ELSE IF a = 0 \/ b = 0 THEN 0
                ELSE BitOp(<<0, 0, 0, 1>>, a, b, 8)
BitNot(a)    == 255 - a                  \* (unsigned char)~a

RECURSIVE Pow2(_)
Pow2(k) == IF k = 0 THEN 1 ELSE 2 * Pow2(k - 1)
Shl(a, k) == a * Pow2(k)                 \* a << k (int, no truncation)
Shr(a, k) == a \div Pow2(k)              \* a >> k

RECURSIVE Repeat(_, _)
\* k copies of the sequence s, one after the other
Repeat(s, k) ==
  IF k = 0 THEN <<>>
  ELSE LET half == Repeat(s, k \div 2)
       IN IF k % 2 = 0 THEN half \o half ELSE half \o half \o s

Zeros(n) == [i \in 1..n |-> 0]
Fill(n, b) == [i \in 1..n |-> b]

RECURSIVE OrAll(_)
\* cl |= m for every m of the sequence, starting from cl = 0
OrAll(s) == IF s = <<>> THEN 0 ELSE BitOr(Head(s), OrAll(Tail(s)))

\* the non-zero elements of a sequence, in order
IsNonZero(b) == b # 0
NonZero(s) == SelectSeq(s, IsNonZero)

-----------------------------------------------------------------------------
(***************************************************************************)
(* TOPIX compression of one line: tpcl_topix_compress (tpcl-driver.c) and  *)
(* its copy tpcl_topix_compress_line (tpcl-compression.c).                 *)
(*                                                                         *)
(* The scratch array is unsigned char line[8][9][9], zero initialised.     *)
(* line[l1][l2][l3] with l2, l3 >= 1 holds the XOR of byte                 *)
(* i = 64*l1 + 8*(l2-1) + (l3-1); line[l1][l2][0] holds the level-3 mask   *)
(* cl3 of that group of 8 bytes, line[l1][0][0] the level-2 mask cl2.      *)
(***************************************************************************)
TopixL1 == 8     \* first dimension of line[8][9][9], l1 = 0..7
TopixL2 == 9     \* second dimension, l2 = 1..8 used for data
TopixL3 == 9     \* third dimension, l3 = 1..8 used for data
CompBufferSize == 65535      \* malloc(0xFFFF)

\* the three loops visit i = 0, 1, ... while i < width and l1 <= 7
LineIndex(l1, l2, l3) ==
  (TopixL2 - 1) * (TopixL3 - 1) * l1 + (TopixL3 - 1) * (l2 - 1) + (l3 - 1)

\* the level-3 mask with the opposite bit order (not what the code does)
ChangedBit3LsbFirst(l3) == Shl(1, l3 - 1)
\* cl3 |= (1 << (8 - l3))
ChangedBit3(l3) == Shl(1, 8 - l3)
\* the level-2 mask with the opposite bit order (not what the code does)
ChangedBit2LsbFirst(l2) == Shl(1, l2 - 1)
\* cl2 |= (1 << (8 - l2))
ChangedBit2(l2) == Shl(1, 8 - l2)
\* the level-1 mask with the opposite bit order (not what the code does)
ChangedBit1LsbFirst(l1) == Shl(1, l1)
\* cl1 |= (1 << (7 - l1))
ChangedBit1(l1) == Shl(1, 7 - l1)

\* a row of the raw bytes, without the XOR (not what the code does)
TopixRawRow(cur, last, width, l1, l2) ==
  <<>> \o [l3 \in 1..(TopixL3 - 1) |->
             IF LineIndex(l1, l2, l3) < width THEN cur[LineIndex(l1, l2, l3) + 1] ELSE 0]
\* line[l1][l2][1..8] after the inner loop: the XOR of the bytes it visited,
\* 0 (the initialiser) where the loop did not come
TopixXorRow(cur, last, width, l1, l2) ==
  <<>> \o [l3 \in 1..(TopixL3 - 1) |->
             IF LineIndex(l1, l2, l3) < width
             THEN BitXor(cur[LineIndex(l1, l2, l3) + 1], last[LineIndex(l1, l2, l3) + 1])
             ELSE 0]

\* line[l1][l2][0..8] for l2 >= 1: cl3, then the XOR bytes
TopixRow(cur, last, width, l1, l2) ==
  IF LineIndex(l1, l2, 1) >= width THEN Zeros(TopixL3)
  ELSE LET xs == TopixXorRow(cur, last, width, l1, l2)
       IN <<OrAll([l3 \in 1..(TopixL3 - 1) |->
                     IF xs[l3] > 0 THEN ChangedBit3(l3) ELSE 0])>> \o xs

RECURSIVE TopixRows(_, _, _, _, _)
\* line[l1][l2..8][0..8], row after row
TopixRows(cur, last, width, l1, l2) ==
  IF l2 > TopixL2 - 1 THEN <<>>
  ELSE TopixRow(cur, last, width, l1, l2) \o TopixRows(cur, last, width, l1, l2 + 1)

\* line[l1][0..8][0..8]: line[l1][0][0] = cl2, line[l1][0][1..8] stay 0
TopixPlane(cur, last, width, l1) ==
  IF LineIndex(l1, 1, 1) >= width THEN Zeros(TopixL2 * TopixL3)
  ELSE LET rows == TopixRows(cur, last, width, l1, 1)
       IN <<OrAll([l2 \in 1..(TopixL2 - 1) |->
                     IF rows[TopixL3 * (l2 - 1) + 1] # 0 THEN ChangedBit2(l2) ELSE 0])>>
          \o Zeros(TopixL3 - 1) \o rows

RECURSIVE TopixPlanes(_, _, _, _)
TopixPlanes(cur, last, width, l1) ==
  IF l1 > TopixL1 - 1 THEN <<>>
  ELSE TopixPlane(cur, last, width, l1) \o TopixPlanes(cur, last, width, l1 + 1)

\* line[8][9][9] after the loops, in memory order (&line[0][0][0] onwards)
TopixScratch(cur, last, width) == TopixPlanes(cur, last, width, 0)

\* cl1 after the loops
TopixL1Mask(scratch) ==
  OrAll([k \in 1..TopixL1 |->
           IF scratch[TopixL2 * TopixL3 * (k - 1) + 1] # 0
           THEN ChangedBit1(k - 1) ELSE 0])

\* ptr = &line[0][0][0]; for (i = 0; i < max; i++) copy *ptr if non-zero
TopixCopyNonZero(scratch) ==
  NonZero(SubSeq(scratch, 1, TopixL1 * TopixL2 * TopixL3))

\* the bytes one call appends at comp_buffer_ptr
TopixLineBytes(cur, last, width) ==
  LET scratch == TopixScratch(cur, last, width)
      cl1     == TopixL1Mask(scratch)
  IN <<cl1>> \o (IF cl1 > 0 THEN TopixCopyNonZero(scratch) ELSE <<>>)

\* a copy of the bytes the loops visited only (not what the code does)
TopixNewLastVisited(cur, last, width) ==
  [i \in 1..Len(last) |->
     IF i <= width /\ i <= TopixL1 * (TopixL2 - 1) * (TopixL3 - 1) THEN cur[i] ELSE last[i]]
\* memcpy(last_buffer, buffer, width)
TopixNewLast(cur, last, width) ==
  [i \in 1..Len(last) |-> IF i <= width THEN cur[i] ELSE last[i]]

-----------------------------------------------------------------------------
(***************************************************************************)
(* The raster callbacks of tpcl-driver.c.                                  *)
(***************************************************************************)
TEC_GMODE_NIBBLE_AND == 0
TEC_GMODE_HEX_AND    == 1
TEC_GMODE_TOPIX      == 3
TEC_GMODE_NIBBLE_OR  == 4
TEC_GMODE_HEX_OR     == 5

UShortMod == 65536                       \* (unsigned short) conversion

\* tpcl_job->buffer_len = cupsBytesPerLine / cupsBitsPerPixel
BufferLen(h) == h.cupsBytesPerLine \div h.cupsBitsPerPixel

\* a release that leaves the job data attached (not what the code does)
tpcl_free_keeps_job_data ==
  /\ jobdata' = jobdata
  /\ buffer' = <<>>
  /\ last_buffer' = <<>>
  /\ comp_buffer' = <<>>

\* tpcl_free_job_buffers: free the three buffers and the job data, then
\* papplJobSetData(job, NULL)
tpcl_free_job_buffers ==
  /\ jobdata' = "freed"
  /\ buffer' = <<>>
  /\ last_buffer' = <<>>
  /\ comp_buffer' = <<>>

\* 8 bit input: memset(buffer, 0, buffer_len), then one bit per sample,
\* MSB first, for x < cupsBytesPerLine.  buffer has cupsBytesPerLine bytes;
\* a byte at or behind buffer_len is not cleared and keeps what it held
\* (old), OR-ed with the bits of this line.
DitherPack(line, y, h, old) ==
  [j \in 1..h.cupsBytesPerLine |->
     BitOr(IF j <= BufferLen(h) THEN 0 ELSE old[j],
           OrAll([k \in 1..8 |->
                    LET x == 8 * (j - 1) + (k - 1)
                    IN IF x < h.cupsBytesPerLine /\ line[x + 1] >= h.dither[y % 16, x % 16]
                       THEN Shr(128, x % 8) ELSE 0]))]

\* tpcl_job->buffer before polarity correction; 1 bit input:
\* memcpy(buffer, line, cupsBytesPerLine)
PackLine(line, y, h, old) ==
  IF h.cupsBitsPerPixel = 8 THEN DitherPack(line, y, h, old)
  ELSE [j \in 1..h.cupsBytesPerLine |-> line[j]]

\* CUPS_CSPACE_SW: complement the first buffer_len bytes; CUPS_CSPACE_K: keep
Polarity(buf, h) ==
  IF h.cupsColorSpace = "SW"
  THEN [j \in 1..Len(buf) |-> IF j <= BufferLen(h) THEN BitNot(buf[j]) ELSE buf[j]]
  ELSE buf

\* a check that accepts every colour space (not what the code does)
UnsupportedDepthOnly(h) == h.cupsBitsPerPixel \notin {1, 8}
\* the two else branches that free the buffers and return false: a depth
\* other than 1 and 8, a colour space other than CUPS_CSPACE_K and _SW
UnsupportedLine(h) ==
  h.cupsBitsPerPixel \notin {1, 8} \/ h.cupsColorSpace \notin {"K", "SW"}

\* the bytes a mode transmits: buffer[0 .. buffer_len - 1]
Transmitted(buf, blen) == SubSeq(buf, 1, blen)

\* nibble modes: two ASCII bytes 0x30 | nibble per byte, high nibble first
NibbleHigh(b) == BitOr(48, BitAnd(Shr(b, 4), 15))
NibbleLow(b)  == BitOr(48, BitAnd(b, 15))
\* an encoder that sends the low nibble first (not what the code does)
NibbleEncodeLowFirst(buf) ==
  [k \in 1..(2 * Len(buf)) |->
     IF k % 2 = 1 THEN NibbleLow(buf[(k + 1) \div 2]) ELSE NibbleHigh(buf[k \div 2])]
NibbleEncode(buf) ==
  [k \in 1..(2 * Len(buf)) |->
     IF k % 2 = 1 THEN NibbleHigh(buf[(k + 1) \div 2]) ELSE NibbleLow(buf[k \div 2])]

\* buffer_threshold = 0xFFFF - (buffer_len + ((buffer_len / 8) * 3))
\* (unsigned arithmetic: when the subtrahend exceeds 0xFFFF the difference
\* wraps to more than 2^31, which no buffer_used exceeds; the model's
\* integers stop at 2^31 - 1 and 2^30 stands for that value)
BufferThreshold(blen) ==
  LET worst == blen + ((blen \div 8) * 3)
  IN IF worst <= CompBufferSize THEN CompBufferSize - worst ELSE Pow2(30)

\* a flush condition without the last-line test (not what the code does)
IsLastLineNever(y, h) == FALSE
\* (y == (options->header.cupsHeight - 1))
IsLastLine(y, h) == y = h.cupsHeight - 1

\* the offset of the line just written instead of the next one (not what
\* the code does)
YOffsetOfLine(y, h) == (y * 254) \div h.HWResolution[1]
\* y_offset = (int)(y + 1) * MM_PER_INCH * 10.0 / HWResolution[0]
\* (IEEE double arithmetic, truncated.  At the two resolutions TOPIX
\* accepts the truncated double equals the exact quotient for y + 1 up to
\* 10274 at 150 dpi and 20549 at 300 dpi, beyond the 5888 and 5376 lines
\* of the longest label max_height admits.)
YOffsetNext(y, h) == ((y + 1) * 254) \div h.HWResolution[1]

\* a flush that leaves last_buffer as it is (not what the code does)
TopixKeepLast(last, blen) == last
\* memset(last_buffer, 0, buffer_len) at the end of tpcl_topix_output_buffer
TopixClearLast(last, blen) == TopixNewLast(Zeros(blen), last, blen)

\* papplDeviceWrite(device, &belen, 2): the two bytes of the unsigned short
\* belen as they lie in memory, the low byte first on a little-endian host
\* and the high byte first on a big-endian one
UShortInMemory(v) ==
  IF host = "little" THEN <<v % 256, v \div 256>> ELSE <<v \div 256, v % 256>>

\* tpcl_topix_output_buffer: the SG command with the 2 byte length and the
\* payload.  belen = (len << 8) | (len >> 8) is the byte-swapped len.
TopixCommand(acc, h) ==
  LET len   == Len(acc) % UShortMod
      belen == (Shl(len, 8) + Shr(len, 8)) % UShortMod
  IN [cmd |-> "SG", y |-> y_offset, width |-> h.cupsWidth,
      res |-> h.HWResolution[1], mode |-> gmode,
      len |-> UShortInMemory(belen),
      data |-> SubSeq(acc, 1, len)]

\* tpcl_rstartpage_cb
tpcl_rstartpage_cb ==
  /\ jobdata \in {"set", "freed"}
  /\ page = "closed"
  /\ IF jobdata # "set"
     THEN /\ ret' = FALSE
          /\ UNCHANGED <<header, jobdata, gmode, buffer_len, buffer, last_buffer,
                         comp_buffer, y_offset, device, page, line_y>>
     ELSE /\ ret' = TRUE
          /\ page' = "open"
          /\ line_y' = 0
          /\ IF gmode = TEC_GMODE_TOPIX
             THEN /\ device' = <<[cmd |-> "C"]>>
                  /\ last_buffer' = Zeros(header.cupsBytesPerLine)
                  /\ comp_buffer' = <<>>
                  /\ y_offset' = 0
             ELSE /\ device' =
                       <<[cmd |-> "C"],
                         [cmd |-> "SGheader", width |-> header.cupsWidth,
                          height |-> header.cupsHeight, mode |-> gmode]>>
                  /\ UNCHANGED <<last_buffer, comp_buffer, y_offset>>
          /\ UNCHANGED <<header, jobdata, gmode, buffer_len, buffer>>
  /\ UNCHANGED <<lineVars, geoVars, dith, sideVars>>

\* tpcl_rwriteline_cb for line y with the raster bytes line
tpcl_rwriteline_cb(y, line) ==
  \* full and out are bound by \E over a singleton so that each is computed
  \* once; they are only defined on the paths that reach their computation
  \E full \in {IF jobdata = "set" /\ ~UnsupportedLine(header)
                THEN Polarity(PackLine(line, y, header, buffer), header)
                ELSE <<>>} :
  \E out \in {IF jobdata = "set" /\ ~UnsupportedLine(header)
                  /\ gmode = TEC_GMODE_TOPIX
               THEN TopixLineBytes(full, last_buffer, buffer_len)
               ELSE <<>>} :
  LET h    == header
      buf  == Transmitted(full, buffer_len)
      acc  == comp_buffer \o out
      used == Len(acc)
  IN
  /\ jobdata \in {"set", "freed"}
  /\ line_in' = [y |-> y, line |-> line]
  /\ IF jobdata # "set"
     THEN /\ ret' = FALSE
          /\ UNCHANGED <<header, jobdata, gmode, buffer_len, buffer, last_buffer,
                         comp_buffer, y_offset, device, page, line_y>>
          /\ UNCHANGED topixObs
     ELSE IF UnsupportedLine(h)
     THEN /\ ret' = FALSE
          /\ tpcl_free_job_buffers
          /\ UNCHANGED <<header, gmode, buffer_len, y_offset, device, page, line_y>>
          /\ UNCHANGED topixObs
     ELSE IF gmode \in {TEC_GMODE_HEX_AND, TEC_GMODE_HEX_OR}
     THEN /\ ret' = TRUE
          /\ buffer' = full
          /\ device' = Append(device, [cmd |-> "data", bytes |-> buf])
          /\ line_y' = y + 1
          /\ UNCHANGED <<header, jobdata, gmode, buffer_len, last_buffer,
                         comp_buffer, y_offset, page>>
          /\ UNCHANGED topixObs
     ELSE IF gmode \in {TEC_GMODE_NIBBLE_AND, TEC_GMODE_NIBBLE_OR}
     THEN /\ ret' = TRUE
          /\ buffer' = full
          /\ device' = Append(device, [cmd |-> "data", bytes |-> NibbleEncode(buf)])
          /\ line_y' = y + 1
          /\ UNCHANGED <<header, jobdata, gmode, buffer_len, last_buffer,
                         comp_buffer, y_offset, page>>
          /\ UNCHANGED topixObs
     ELSE IF gmode = TEC_GMODE_TOPIX
     THEN /\ ret' = TRUE
          /\ buffer' = full
          /\ buffer_used' = used
          /\ topix_prev' = last_buffer
          /\ topix_out' = out
          /\ topix_last' = TopixNewLast(full, last_buffer, buffer_len)
          /\ line_y' = y + 1
          /\ IF used > CompBufferSize
             THEN \* the copy loop wrote behind malloc(0xFFFF): the heap is
                  \* corrupt and nothing is known about what follows
                  /\ jobdata' = "corrupt"
                  /\ comp_buffer' = acc
                  /\ last_buffer' = TopixNewLast(full, last_buffer, buffer_len)
                  /\ UNCHANGED <<y_offset, device>>
             ELSE /\ jobdata' = jobdata
                  /\ IF used > BufferThreshold(buffer_len) \/ IsLastLine(y, h)
                     THEN /\ device' = Append(device, TopixCommand(acc, h))
                          /\ comp_buffer' = <<>>
                          /\ last_buffer' = TopixClearLast(last_buffer, buffer_len)
                          /\ y_offset' = YOffsetNext(y, h)
                     ELSE /\ comp_buffer' = acc
                          /\ last_buffer' = TopixNewLast(full, last_buffer, buffer_len)
                          /\ UNCHANGED <<y_offset, device>>
          /\ UNCHANGED <<header, gmode, buffer_len, page>>
     ELSE /\ ret' = FALSE
          /\ tpcl_free_job_buffers
          /\ UNCHANGED <<header, gmode, buffer_len, y_offset, device, page, line_y>>
          /\ UNCHANGED topixObs
  /\ UNCHANGED <<geoVars, dith, sideVars>>

\* tpcl_rendpage_cb; env holds what the host returns to its queries
tpcl_rendpage_cb(env) ==
  /\ jobdata \in {"set", "freed"}
  /\ page = "open"
  /\ page' = "closed"
  /\ IF jobdata # "set"
     THEN /\ ret' = FALSE
          /\ UNCHANGED <<jobdata, buffer, last_buffer, comp_buffer, device>>
     ELSE LET closed == IF gmode # TEC_GMODE_TOPIX
                        THEN Append(device, [cmd |-> "close"]) ELSE device
          IN IF \/ ~env.printer
                \/ ~env.attrs
                \/ ~env.driver_data
                \/ env.copies < 1 \/ env.copies > 9999
                \/ env.cut_interval < 0 \/ env.cut_interval > 100
             THEN /\ ret' = FALSE
                  /\ tpcl_free_job_buffers
                  /\ device' = closed
             ELSE /\ ret' = TRUE
                  /\ device' = Append(closed, [cmd |-> "XS", copies |-> env.copies,
                                               cut_interval |-> env.cut_interval])
                  /\ UNCHANGED <<jobdata, buffer, last_buffer, comp_buffer>>
  /\ UNCHANGED <<header, gmode, buffer_len, y_offset, line_y>>
  /\ UNCHANGED <<lineVars, geoVars, dith, sideVars>>

\* tpcl_rendjob_cb
tpcl_rendjob_cb ==
  /\ jobdata \in {"set", "freed"}
  /\ page = "closed"
  /\ IF jobdata # "set"
     THEN /\ ret' = FALSE
          /\ UNCHANGED <<jobdata, buffer, last_buffer, comp_buffer>>
     ELSE /\ ret' = TRUE
          /\ tpcl_free_job_buffers
  /\ UNCHANGED <<header, gmode, buffer_len, y_offset, device, page, line_y>>
  /\ UNCHANGED <<lineVars, geoVars, dith, sideVars>>

\* dither_threshold16(dither, level)
dither_threshold16(level) == [y \in 0..15, x \in 0..15 |-> level]

-----------------------------------------------------------------------------
(***************************************************************************)
(* The dither matrices of dithering.c, as tpcl_setup_driver_common         *)
(* (tpcl-config.c) builds them: first driver_data->gdither, then           *)
(* driver_data->pdither, each with the builder its option names.  A        *)
(* matrix is a function of <<y, x>>; the builders advance one loop         *)
(* iteration of their outermost loops per step.                            *)
(***************************************************************************)
DitherSize == 16                     \* pappl_dither_t is 16 x 16
DitherCells == (0..DitherSize - 1) \X (0..DitherSize - 1)
DitherAlgos == {"bayer", "clustered", "threshold"}
DitherThresholds == {128, 300}       \* dithering-threshold, before the cast
PriorLevels == {0, 255}              \* what the matrices held before setup

\* uint16_t m2[2][2] = { {0, 2}, {3, 1} }
BayerSeedMatrix == [c \in (0..1) \X (0..1) |->
                      IF c = <<0, 0>> THEN 0
                      ELSE IF c = <<0, 1>> THEN 2
                      ELSE IF c = <<1, 0>> THEN 3 ELSE 1]

\* a doubling that gives the two right-hand quadrants the same offset
BayerOffsetSameRight(top, left) ==
  IF top /\ left THEN 0 ELSE IF ~top /\ left THEN 3 ELSE 2

\* the offsets of the four quadrants: TL +0, TR +2, BL +3, BR +1
BayerOffset(top, left) ==
  IF top /\ left THEN 0
  ELSE IF top THEN 2
  ELSE IF left THEN 3
  ELSE 1

\* one iteration of while (n < 16): every M[y][x] of the n x n block is
\* read once, before any of the four cells written from it
BayerDouble(M, n) ==
  [c \in (0..2 * n - 1) \X (0..2 * n - 1) |->
     LET v == (M[c[1] % n, c[2] % n] * 4) % UShortMod
     IN (v + BayerOffset(c[1] < n, c[2] < n)) % UShortMod]

\* dither[y][x] = (unsigned char)M[y][x]
BayerScale(M) == [c \in DitherCells |-> M[c[1], c[2]] % 256]

\* pts[k++] = {x, y, dx*dx + dy*dy} with dx = x + 0.5 - 8, dy = y + 0.5 - 8.
\* The weights are multiples of 0.25 that a float holds exactly; w is four
\* times the weight.
ClusteredPoint(k) ==
  LET x == k % DitherSize
      y == k \div DitherSize
      dx2 == 2 * x + 1 - DitherSize
      dy2 == 2 * y + 1 - DitherSize
  IN [x |-> x, y |-> y, w |-> dx2 * dx2 + dy2 * dy2]

ClusteredPoints ==
  <<>> \o [k \in 1..DitherSize * DitherSize |-> ClusteredPoint(k - 1)]

\* for (j = i+1; j < 256; j++) if (pts[j].w < pts[i].w) swap(pts[i], pts[j])
\* The iterations j .. stop-1 of the loop, in order.
RECURSIVE ClusteredSortRun(_, _, _, _)
ClusteredSortRun(pts, i, j, stop) ==
  IF j >= stop THEN pts
  ELSE ClusteredSortRun(
         IF pts[j + 1].w < pts[i + 1].w
         THEN [pts EXCEPT ![i + 1] = pts[j + 1], ![j + 1] = pts[i + 1]]
         ELSE pts,
         i, j + 1, stop)

\* the whole loop over j, taken in runs of DitherSize iterations
RECURSIVE ClusteredSortPass(_, _, _)
ClusteredSortPass(pts, i, j) ==
  IF j >= Len(pts) THEN pts
  ELSE LET stop == IF j + DitherSize < Len(pts) THEN j + DitherSize ELSE Len(pts)
       IN ClusteredSortPass(ClusteredSortRun(pts, i, j, stop), i, stop)

\* for (i = 0; i < 256; i++) dither[pts[i].y][pts[i].x] = (unsigned char)i
\* A cell holds the last i written to it, and what it held before the loop
\* if no pts[i] names it.
ClusteredAssign(dither, pts) ==
  [c \in DitherCells |->
     LET hits == {i \in 0..Len(pts) - 1 : <<pts[i + 1].y, pts[i + 1].x>> = c}
     IN IF hits = {} THEN dither[c]
        ELSE (CHOOSE i \in hits : \A k \in hits : k <= i) % 256]

\* the option that selects the builder of the matrix under construction
DitherAlgo == IF dith.phase = "gdither" THEN dith.algo ELSE dith.algo_photo
DitherTarget == IF dith.phase = "gdither" THEN dith.gdither ELSE dith.pdither

\* the builder returns: its locals are gone, the next matrix is due
DitherReturn(matrix) ==
  dith' = [dith EXCEPT
             !.gdither = IF dith.phase = "gdither" THEN matrix ELSE @,
             !.pdither = IF dith.phase = "pdither" THEN matrix ELSE @,
             !.phase = IF dith.phase = "gdither" THEN "pdither" ELSE "done",
             !.pc = "call", !.n = 0, !.i = 0, !.M = <<>>, !.pts = <<>>]

Building(algo, pc) ==
  /\ dith.phase \in {"gdither", "pdither"}
  /\ DitherAlgo = algo
  /\ dith.pc = pc

-----------------------------------------------------------------------------
(***************************************************************************)
(* The label geometry state: the state file <printer-name>.state, written  *)
(* and read by tpcl-state.c and, with the same format, by tpcl-driver.c.   *)
(*                                                                         *)
(* A file is a sequence of lines.  A line is modelled by the text before   *)
(* its first '=' (key) and the characters after it (text); a line without  *)
(* '=' has the whole line as key.                                          *)
(***************************************************************************)
Printers == {"P", "Q"}

NoFile == [exists |-> FALSE, lines |-> <<>>]

DigitChars == <<"0", "1", "2", "3", "4", "5", "6", "7", "8", "9">>
IsDigit(c) == \E d \in 1..Len(DigitChars) : DigitChars[d] = c
DigitValue(c) == (CHOOSE d \in 1..Len(DigitChars) : DigitChars[d] = c) - 1

RECURSIVE FormatNat(_)
FormatNat(v) ==
  IF v < 10 THEN <<DigitChars[v + 1]>>
  ELSE FormatNat(v \div 10) \o <<DigitChars[(v % 10) + 1]>>
\* fprintf "%d"
FormatInt(v) == IF v < 0 THEN <<"-">> \o FormatNat(-v) ELSE FormatNat(v)

RECURSIVE SkipSpaces(_)
SkipSpaces(text) ==
  IF text # <<>> /\ Head(text) = " " THEN SkipSpaces(Tail(text)) ELSE text

RECURSIVE ScanDigits(_, _, _)
\* the longest prefix of decimal digits; what follows it is not consumed
ScanDigits(text, value, seen) ==
  IF text # <<>> /\ IsDigit(Head(text))
  THEN ScanDigits(Tail(text), 10 * value + DigitValue(Head(text)), TRUE)
  ELSE [assigned |-> seen, value |-> value]

\* sscanf "%d": white space, an optional sign, decimal digits; the
\* conversion assigns if and only if there is at least one digit
ParseInt(text) ==
  LET t      == SkipSpaces(text)
      signed == t # <<>> /\ Head(t) \in {"+", "-"}
      d      == ScanDigits(IF signed THEN Tail(t) ELSE t, 0, FALSE)
  IN [assigned |-> d.assigned,
      value    |-> IF signed /\ Head(t) = "-" THEN -d.value ELSE d.value]

StateKeys == <<"last_print_width", "last_print_height", "last_label_gap",
               "last_roll_margin">>

\* the four values as load_state_from_file holds them before reading a line
NotLoaded == [k \in 1..Len(StateKeys) |-> -1]

\* one turn of the fgets loop: the first sscanf that returns 1 assigns its
\* variable and continues with the next line
ScanStateLine(line, loaded) ==
  IF \E k \in 1..Len(StateKeys) : line.key = StateKeys[k]
  THEN LET k == CHOOSE k \in 1..Len(StateKeys) : line.key = StateKeys[k]
           r == ParseInt(line.text)
       IN IF r.assigned THEN [loaded EXCEPT ![k] = r.value] ELSE loaded
  ELSE loaded

RECURSIVE ScanStateLines(_, _)
ScanStateLines(lines, loaded) ==
  IF lines = <<>> THEN loaded
  ELSE ScanStateLines(Tail(lines), ScanStateLine(Head(lines), loaded))

\* tpcl_printer_state_t
StateOf(w, h, g, m, init) ==
  [last_print_width |-> w, last_print_height |-> h, last_label_gap |-> g,
   last_roll_margin |-> m, initialized |-> init]

\* static tpcl_printer_state_t g_printer_state = {0, 0, 0, 0, false}; also
\* tpcl_printer_state_t state = {0} of tpcl_state_check_and_update
NoCache == StateOf(0, 0, 0, 0, FALSE)

\* the negation of loaded_width < 0 || loaded_height < 0 || ...
StateFieldsLoaded(loaded) == \A k \in 1..Len(StateKeys) : loaded[k] >= 0

\* load_state_from_file (tpcl-state.c): the return value and *state after
\* the call, for *state = st before it
load_state_from_file(file, st) ==
  LET loaded == ScanStateLines(file.lines, NotLoaded)
  IN IF ~file.exists \/ ~StateFieldsLoaded(loaded)
     THEN [ok |-> FALSE, state |-> st]
     ELSE [ok |-> TRUE,
           state |-> StateOf(loaded[1], loaded[2], loaded[3], loaded[4], TRUE)]

\* tpcl_load_printer_state (tpcl-driver.c): the same code
tpcl_load_printer_state(file, st) ==
  LET loaded == ScanStateLines(file.lines, NotLoaded)
  IN IF ~file.exists \/ ~StateFieldsLoaded(loaded)
     THEN [ok |-> FALSE, state |-> st]
     ELSE [ok |-> TRUE,
           state |-> StateOf(loaded[1], loaded[2], loaded[3], loaded[4], TRUE)]

\* the six lines save_state_to_file / tpcl_save_printer_state print
StateFileOf(st) ==
  [exists |-> TRUE,
   lines  |-> <<[key |-> "# TPCL Printer State File", text |-> <<>>],
                [key |-> "# Auto-generated - do not edit manually", text |-> <<>>],
                [key |-> StateKeys[1], text |-> FormatInt(st.last_print_width)],
                [key |-> StateKeys[2], text |-> FormatInt(st.last_print_height)],
                [key |-> StateKeys[3], text |-> FormatInt(st.last_label_gap)],
                [key |-> StateKeys[4], text |-> FormatInt(st.last_roll_margin)]>>]

\* save_state_to_file (tpcl-state.c): the file after the call; can_write is
\* false when mkdir or fopen(filepath, "w") fails
\* a save that removes the old record before it fails (not what the code
\* does)
save_state_removing_old(file, st, can_write) ==
  IF can_write THEN StateFileOf(st) ELSE NoFile
save_state_to_file(file, st, can_write) ==
  IF can_write THEN StateFileOf(st) ELSE file

\* tpcl_save_printer_state (tpcl-driver.c): the same code
tpcl_save_printer_state(file, st, can_write) ==
  IF can_write THEN StateFileOf(st) ELSE file

\* a comparison that leaves out the width (not what the code does)
StateChangedButWidth(st, w, h, g, m) ==
  IF ~st.initialized THEN FALSE
  ELSE \/ st.last_print_height # h
       \/ st.last_label_gap # g
       \/ st.last_roll_margin # m
\* state_has_changed (tpcl-state.c)
state_has_changed(st, w, h, g, m) ==
  IF ~st.initialized THEN FALSE
  ELSE \/ st.last_print_width # w
       \/ st.last_print_height # h
       \/ st.last_label_gap # g
       \/ st.last_roll_margin # m

\* ---- bookkeeping of the checks (no counterpart in the code)
\* a geometry: the four numbers a check is called with
GeometryOf(w, h, g, m) ==
  [print_width |-> w, print_height |-> h, label_gap |-> g, roll_margin |-> m]
NoGeometry == GeometryOf(-1, -1, -1, -1)

\* what a job asks for: graphics mode, resolution, label pitch and height
NoRequest ==
  [mode |-> -1, HWResolution |-> <<0, 0>>, label_pitch |-> -1, print_height |-> -1]

NoGeo ==
  [kind |-> "none", printer |-> "", request |-> NoRequest,
   geometry |-> NoGeometry, changed |-> FALSE,
   had_state |-> FALSE, wrote |-> FALSE, ok |-> FALSE, before |-> NoFile,
   cache_before |-> NoCache, files_before |-> [p \in Printers |-> NoFile],
   prev |-> NoGeometry, clean |-> FALSE, writes_ok |-> FALSE,
   \* what a tpcl_rstartjob_cb call obtained and released before its return
   attrs_copies |-> 0, attrs_deleted |-> 0, job_allocs |-> 0, job_frees |-> 0]

\* prev[p]: the geometry of the most recent completed check for printer p;
\* clean[p]: since then its file was not written by anyone else and no
\* write for it failed; writes_ok: no write has failed so far
NoHist ==
  [prev |-> [p \in Printers |-> NoGeometry], clean |-> [p \in Printers |-> TRUE],
   writes_ok |-> TRUE]

\* tpcl_state_check_and_update (tpcl-state.c)
tpcl_state_check_and_update(p, w, h, g, m, can_write) ==
  LET load    == load_state_from_file(files[p], NoCache)
      changed == IF ~load.ok THEN TRUE
                 ELSE state_has_changed(load.state, w, h, g, m)
  IN /\ files' = IF changed
                 THEN [files EXCEPT ![p] =
                         save_state_to_file(files[p], StateOf(w, h, g, m, TRUE), can_write)]
                 ELSE files
     /\ geo' = [NoGeo EXCEPT !.kind = "check", !.printer = p,
                             !.geometry = GeometryOf(w, h, g, m),
                             !.changed = changed, !.had_state = load.ok,
                             !.wrote = changed /\ can_write, !.ok = TRUE,
                             !.before = files[p], !.files_before = files,
                             !.prev = hist.prev[p], !.clean = hist.clean[p],
                             !.writes_ok = hist.writes_ok]
     /\ hist' = [prev  |-> [hist.prev EXCEPT ![p] = GeometryOf(w, h, g, m)],
                 clean |-> [hist.clean EXCEPT ![p] =
                              IF changed THEN can_write ELSE hist.clean[p]],
                 writes_ok |-> hist.writes_ok /\ (changed => can_write)]
     /\ UNCHANGED g_printer_state

\* tpcl_state_delete (tpcl-state.c): unlink the state file
tpcl_state_delete(p) ==
  /\ files' = [files EXCEPT ![p] = NoFile]
  /\ geo' = NoGeo
  /\ hist' = [hist EXCEPT !.prev[p] = NoGeometry, !.clean[p] = TRUE]
  /\ UNCHANGED g_printer_state

-----------------------------------------------------------------------------
(***************************************************************************)
(* tpcl_rstartjob_cb (tpcl-driver.c).  env is what the host and the        *)
(* printer settings hand to the callback: the raster header, whether the   *)
(* host calls and the allocations succeed, and the vendor options.         *)
(***************************************************************************)
\* graphics-mode-default; an absent or unknown keyword selects TOPIX
GraphicsMode(keyword) ==
  IF keyword = "nibble-and" THEN TEC_GMODE_NIBBLE_AND
  ELSE IF keyword = "hex-and" THEN TEC_GMODE_HEX_AND
  ELSE IF keyword = "nibble-or" THEN TEC_GMODE_NIBBLE_OR
  ELSE IF keyword = "hex-or" THEN TEC_GMODE_HEX_OR
  ELSE TEC_GMODE_TOPIX

\* (int)(cupsPageSize[i] * MM_PER_INCH * 10.0 / POINTS_PER_INCH), for page
\* sizes of whole points (the truncated double equals the integer quotient
\* for the page sizes of the model)
PrintDim(points) == (points * 254) \div 72

\* a test that only asks for a square resolution (not what the code does)
TopixResolutionUnequal(h) == h.HWResolution[1] # h.HWResolution[2]
\* TOPIX: neither 150 x 150 nor 300 x 300 dpi
TopixResolutionUnsupported(h) ==
  \/ h.HWResolution[1] \notin {150, 300}
  \/ h.HWResolution[2] \notin {150, 300}
  \/ h.HWResolution[1] # h.HWResolution[2]

\* the 203 dpi limit at every resolution (not what the code does)
MaxPitchAnyResolution(h) == 9990
MaxPitch(h)  == IF h.HWResolution[2] = 300 THEN 4572 ELSE 9990
MaxHeight(h) == IF h.HWResolution[2] = 300 THEN 4552 ELSE 9970

\* the geometry StartJob computes
JobGeometry(env) ==
  GeometryOf(PrintDim(env.header.cupsPageSize[1]), PrintDim(env.header.cupsPageSize[2]),
             env.label_gap, env.roll_margin)

\* the first of the checks of tpcl_rstartjob_cb that fails, in the order of
\* the code; "none" when the callback gets to the geometry state
StartJobFailure(env) ==
  LET h    == env.header
      mode == GraphicsMode(env.graphics_mode)
      gm   == JobGeometry(env)
  IN IF ~env.printer THEN "printer"
     ELSE IF ~env.attrs THEN "attrs"
     ELSE IF ~env.calloc THEN "calloc"
     ELSE IF mode = TEC_GMODE_TOPIX /\ TopixResolutionUnsupported(h)
          THEN "resolution"
     ELSE IF ~env.malloc THEN "malloc"
     ELSE IF gm.print_height + gm.label_gap > MaxPitch(h) THEN "pitch"
     ELSE IF gm.print_height > MaxHeight(h) THEN "height"
     ELSE IF env.print_darkness # 0 /\ ~env.driver_data THEN "driver_data"
     ELSE "none"

\* printer_attrs = papplPrinterGetDriverAttributes(printer): a copy that
\* the caller has to ippDelete; NULL when it fails
AttrsCopies(failure) == IF failure \in {"printer", "attrs"} THEN 0 ELSE 1
\* the ippDelete(printer_attrs) calls on the path to the return: one before
\* each return false from the calloc test on and before return true, none
\* before the return of the TOPIX resolution test (lines 1186-1196)
AttrsDeleted(failure) ==
  IF failure \in {"printer", "attrs", "resolution"} THEN 0 ELSE 1
\* tpcl_job = calloc(1, sizeof(tpcl_job_t)) succeeded
JobAllocs(failure) == IF failure \in {"printer", "attrs", "calloc"} THEN 0 ELSE 1
\* the tpcl_free_job_buffers(job, tpcl_job) calls on the path to the return
JobFrees(failure) ==
  IF failure \in {"resolution", "malloc", "pitch", "height", "driver_data"}
  THEN 1 ELSE 0

\* a callback that updates the geometry state ahead of the range checks
\* (not what the code does)
UpdatesStateEarly(failure) == failure \in {"none", "pitch", "height", "driver_data"}
\* the geometry state (lines 1404-1441) is reached when no check returned
UpdatesState(failure) == failure = "none"

\* the adjustment command sent with every job (not what the code does)
StartJobCommandsAlwaysAX(env) ==
  LET gm == JobGeometry(env)
  IN <<[cmd |-> "D", pitch |-> gm.print_height + gm.label_gap, width |-> gm.print_width,
        height |-> gm.print_height, roll |-> gm.print_width + gm.roll_margin],
       [cmd |-> "AX", feed |-> env.feed_adjustment,
        cut |-> env.cut_position_adjustment,
        backfeed |-> env.backfeed_adjustment]>>
     \o (IF env.print_darkness # 0 /\ env.driver_data
         THEN <<[cmd |-> "AY", darkness |-> env.print_darkness]>>
         ELSE <<>>)

\* the commands written before the geometry state is looked at
StartJobCommands(env) ==
  LET gm == JobGeometry(env)
  IN <<[cmd |-> "D", pitch |-> gm.print_height + gm.label_gap, width |-> gm.print_width,
        height |-> gm.print_height, roll |-> gm.print_width + gm.roll_margin]>>
     \o (IF \/ env.feed_adjustment # 0
            \/ env.cut_position_adjustment # 0
            \/ env.backfeed_adjustment # 0
         THEN <<[cmd |-> "AX", feed |-> env.feed_adjustment,
                 cut |-> env.cut_position_adjustment,
                 backfeed |-> env.backfeed_adjustment]>>
         ELSE <<>>)
     \o (IF env.print_darkness # 0 /\ env.driver_data
         THEN <<[cmd |-> "AY", darkness |-> env.print_darkness]>>
         ELSE <<>>)

tpcl_rstartjob_cb(p, env) ==
  LET h       == env.header
      mode    == GraphicsMode(env.graphics_mode)
      gm      == JobGeometry(env)
      failure == StartJobFailure(env)
      \* if (!g_printer_state.initialized) tpcl_load_printer_state(...)
      loaded  == IF ~g_printer_state.initialized
                 THEN tpcl_load_printer_state(files[p], g_printer_state).state
                 ELSE g_printer_state
      changed == IF loaded.initialized
                 THEN \/ loaded.last_print_width # gm.print_width
                      \/ loaded.last_print_height # gm.print_height
                      \/ loaded.last_label_gap # gm.label_gap
                      \/ loaded.last_roll_margin # gm.roll_margin
                 ELSE TRUE
      updated == StateOf(gm.print_width, gm.print_height, gm.label_gap,
                         gm.roll_margin, TRUE)
      feed    == changed /\ env.feed_on_change = "yes" /\ env.driver_data
      request == [mode |-> mode, HWResolution |-> h.HWResolution,
                  label_pitch |-> gm.print_height + gm.label_gap,
                  print_height |-> gm.print_height]
      seen    == [NoGeo EXCEPT !.kind = "job", !.printer = p, !.request = request,
                               !.before = files[p],
                               !.cache_before = g_printer_state, !.files_before = files,
                               !.prev = hist.prev[p], !.clean = hist.clean[p],
                               !.writes_ok = hist.writes_ok,
                               !.attrs_copies = AttrsCopies(failure),
                               !.attrs_deleted = AttrsDeleted(failure),
                               !.job_allocs = JobAllocs(failure),
                               !.job_frees = JobFrees(failure)]
  IN
  /\ jobdata # "set"
  /\ page = "closed"
  /\ ret' = (failure = "none")
  /\ geo' = IF UpdatesState(failure)
            THEN [seen EXCEPT !.ok = (failure = "none"), !.geometry = gm,
                              !.changed = changed, !.had_state = loaded.initialized,
                              !.wrote = env.can_write]
            ELSE seen
  /\ IF UpdatesState(failure)
     THEN /\ g_printer_state' = updated
          /\ files' = [files EXCEPT ![p] =
                         tpcl_save_printer_state(files[p], updated, env.can_write)]
          /\ hist' = [prev  |-> [hist.prev EXCEPT ![p] = gm],
                      clean |-> [hist.clean EXCEPT ![p] = env.can_write],
                      writes_ok |-> hist.writes_ok /\ env.can_write]
     ELSE UNCHANGED <<g_printer_state, files, hist>>
  /\ IF failure \in {"printer", "attrs", "calloc"}
     THEN \* nothing was attached to the job
          /\ device' = <<>>
          /\ UNCHANGED <<header, jobdata, gmode, buffer_len, buffer, last_buffer,
                         comp_buffer, y_offset, line_y>>
     ELSE IF failure # "none"
     THEN /\ tpcl_free_job_buffers
          /\ device' = IF failure = "driver_data" THEN StartJobCommands(env) ELSE <<>>
          /\ UNCHANGED <<header, gmode, buffer_len, y_offset, line_y>>
     ELSE /\ header' = h
          /\ jobdata' = "set"
          /\ gmode' = mode
          /\ buffer_len' = BufferLen(h)
          \* malloc: the contents are indeterminate; with the 1 bit headers
          \* of this specification they are written before they are read
          /\ buffer' = Zeros(h.cupsBytesPerLine)
          /\ last_buffer' = IF mode = TEC_GMODE_TOPIX
                            THEN Zeros(h.cupsBytesPerLine) ELSE <<>>
          /\ comp_buffer' = <<>>
          /\ y_offset' = 0
          /\ line_y' = 0
          /\ device' = StartJobCommands(env)
                         \o (IF feed THEN <<[cmd |-> "T"]>> ELSE <<>>)
  /\ UNCHANGED page

-----------------------------------------------------------------------------
(***************************************************************************)
(* tpcl_status_cb (tpcl-driver.c): the status query {WS|}.  A reply is the *)
(* sequence of the bytes papplDeviceRead stored in status[]; bytes is its  *)
(* return value: the length of the reply, 0 for no data, -1 for an error.  *)
(***************************************************************************)
StatusMaxAttempts == 22       \* max_attempts
StatusBufferSize  == 256      \* sizeof(status)

\* the two characters of a status code, as bytes
StatusCode(hi, lo) == <<48 + hi, 48 + lo>>

\* the ready codes and "04" (paused) (not what the code does)
ReadyCodesAndPaused ==
  {StatusCode(0, 0), StatusCode(0, 2), StatusCode(4, 0), StatusCode(4, 1),
   StatusCode(0, 4)}
\* "00" ready, "02" operating, "40" print succeeded, "41" feed succeeded
ReadyCodes ==
  {StatusCode(0, 0), StatusCode(0, 2), StatusCode(4, 0), StatusCode(4, 1)}

\* the reason papplPrinterSetReasons is called with for a code that is not
\* a ready code
StatusReason(code) ==
  IF code \in {StatusCode(0, 1), StatusCode(1, 5)} THEN "cover-open"
  ELSE IF code \in {StatusCode(1, 1), StatusCode(1, 2)} THEN "media-jam"
  ELSE IF code \in {StatusCode(1, 3), StatusCode(2, 3)} THEN "media-empty"
  ELSE IF code = StatusCode(2, 1) THEN "marker-supply-empty"
  ELSE IF code = StatusCode(5, 4) THEN "spool-area-full"
  ELSE "other"

\* the elements of status[] (1-based) that the format test and the copy
\* into status_code read; && evaluates left to right and stops early
StatusReads(bytes, status) ==
  IF bytes < 13 THEN {}
  ELSE IF status[1] # 1 THEN {1}
  ELSE IF status[2] # 2 THEN {1, 2}
  ELSE 1..4

\* bytes >= 13 && status[0] == 0x01 && status[1] == 0x02
ValidStatusReply(bytes, status) == bytes >= 13 /\ status[1] = 1 /\ status[2] = 2

NoStatus ==
  [pc |-> "idle", device |-> "closed", opens |-> 0, closes |-> 0, sent |-> <<>>,
   poll_attempts |-> 0, bytes |-> 0, status |-> <<>>, reads |-> {},
   printer_ready |-> FALSE, reasons |-> "none"]

\* the callback is entered: printer_ready = false; the reasons are the
\* printer's and stay
tpcl_status_cb_enter ==
  /\ stat.pc \in {"idle", "returned"}
  /\ stat' = [NoStatus EXCEPT !.pc = "open", !.reasons = stat.reasons]

\* papplPrinterOpenDevice; return printer_ready if it fails
tpcl_status_cb_open(ok) ==
  /\ stat.pc = "open"
  /\ stat' = IF ok
             THEN [stat EXCEPT !.pc = "query", !.device = "open", !.opens = @ + 1]
             ELSE [stat EXCEPT !.pc = "returned"]

\* papplDevicePuts(device, "{WS|}\n"), papplDeviceFlush, poll_attempts = 0
tpcl_status_cb_query ==
  /\ stat.pc = "query"
  /\ stat' = [stat EXCEPT !.pc = "poll", !.sent = Append(@, "{WS|}"),
                          !.poll_attempts = 0, !.bytes = 0]

\* a poll loop without the attempt limit (not what the code does)
tpcl_status_cb_poll_unbounded(read) ==
  /\ stat.pc = "poll"
  /\ IF read.bytes = 0
     THEN stat' = [stat EXCEPT !.bytes = 0, !.poll_attempts = @ + 1]
     ELSE stat' = [stat EXCEPT !.pc = "check", !.bytes = read.bytes,
                              !.status = read.data]

\* one iteration of while (poll_attempts < max_attempts); read is what
\* papplDeviceRead returns (bytes: -1, 0 or a length) and stores (data)
tpcl_status_cb_poll(read) ==
  /\ stat.pc = "poll"
  /\ IF stat.poll_attempts >= StatusMaxAttempts
     THEN stat' = [stat EXCEPT !.pc = "check"]
     ELSE IF read.bytes = 0
     THEN stat' = [stat EXCEPT !.bytes = 0, !.poll_attempts = @ + 1]
     ELSE stat' = [stat EXCEPT !.pc = "check", !.bytes = read.bytes,
                              !.status = read.data]

\* from "Check if response is valid" to the return
tpcl_status_cb_check ==
  /\ stat.pc = "check"
  /\ LET code  == <<stat.status[3], stat.status[4]>>
         valid == stat.bytes > 0 /\ ValidStatusReply(stat.bytes, stat.status)
         ready == valid /\ code \in ReadyCodes
     IN stat' = [stat EXCEPT
                   !.pc = "returned",
                   !.reads = IF stat.bytes > 0
                             THEN StatusReads(stat.bytes, stat.status) ELSE {},
                   !.printer_ready = ready,
                   !.reasons = IF ready THEN "none"
                               ELSE IF valid THEN StatusReason(code) ELSE @,
                   \* papplPrinterCloseDevice(printer)
                   !.device = "closed", !.closes = @ + 1]

(***************************************************************************)
(* Two threads that call tpcl_state_check_and_update (tpcl-state.c) for    *)
(* the same printer.  fopen(path, "w") truncates the file; the six lines   *)
(* fprintf buffers reach it in one write when fclose flushes them.  A      *)
(* reader gets the whole of a file this small with its first read.         *)
(***************************************************************************)
Threads == {1, 2}
NoCheck ==
  [pc |-> "idle", geometry |-> NoGeometry, seen |-> NoFile, had_state |-> FALSE,
   changed |-> FALSE, writing |-> FALSE]
NoChecks == [t \in Threads |-> NoCheck]

\* the record of a geometry
RecordOf(gm) ==
  StateOf(gm.print_width, gm.print_height, gm.label_gap, gm.roll_margin, TRUE)

\* the file fopen(filepath, "w") leaves
TruncatedFile == [exists |-> TRUE, lines |-> <<>>]

\* thread t enters tpcl_state_check_and_update for printer p
check_enter(t, gm) ==
  /\ checks[t].pc \in {"idle", "done"}
  /\ checks' = [checks EXCEPT ![t] = [NoCheck EXCEPT !.pc = "load", !.geometry = gm]]
  /\ UNCHANGED files

\* load_state_from_file and the comparison, lines 70-91
check_load(t, p) ==
  LET gm      == checks[t].geometry
      load    == load_state_from_file(files[p], NoCache)
      changed == IF ~load.ok THEN TRUE
                 ELSE state_has_changed(load.state, gm.print_width, gm.print_height,
                                        gm.label_gap, gm.roll_margin)
  IN /\ checks[t].pc = "load"
     /\ checks' = [checks EXCEPT ![t] =
                     [@ EXCEPT !.pc = IF changed THEN "save" ELSE "done",
                               !.seen = files[p], !.had_state = load.ok,
                               !.changed = changed,
                               !.writing = \E u \in Threads \ {t} : checks[u].pc = "write"]]
     /\ UNCHANGED files

\* save_state_to_file up to fopen(filepath, "w")
check_save_open(t, p) ==
  /\ checks[t].pc = "save"
  /\ files' = [files EXCEPT ![p] = TruncatedFile]
  /\ checks' = [checks EXCEPT ![t].pc = "write"]

\* save_state_to_file from the first fprintf to fclose
check_save_close(t, p) ==
  LET gm == checks[t].geometry
  IN /\ checks[t].pc = "write"
     /\ files' = [files EXCEPT ![p] = StateFileOf(RecordOf(gm))]
     /\ checks' = [checks EXCEPT ![t].pc = "done"]

-----------------------------------------------------------------------------
(***************************************************************************)
(* Inputs of the page pipeline and the values of the variables that the    *)
(* other parts of the model own.                                           *)
(***************************************************************************)
LongLineBytes == 65      \* the long line length: two level-1 groups
PageHeight    == 2       \* cupsHeight of the modelled pages

ShortLengths == {1, 2}   \* line lengths whose lines range over Palette
Palette == {0, 1, 255}

\* byte positions (1-based) where a long line may differ from 0: the first
\* byte, the end of the first level-1 group, and the end of the line
HotPositions(n) == {1, 64, n}

LinesOf(n) ==
  IF n \in ShortLengths
  THEN [1..n -> Palette]
  ELSE {[i \in 1..n |-> IF i \in hot THEN 255 ELSE 0] : hot \in SUBSET HotPositions(n)}

HeaderOf(bytes, bpp, cs, height) ==
  [cupsBitsPerPixel |-> bpp, cupsBytesPerLine |-> bytes, cupsColorSpace |-> cs,
   cupsWidth |-> (8 * bytes) \div bpp, cupsHeight |-> height,
   cupsPageSize |-> <<288, 432>>,
   HWResolution |-> <<300, 300>>, dither |-> dither_threshold16(128)]

EndPageEnvs ==
  {[printer |-> TRUE, attrs |-> TRUE, driver_data |-> TRUE, copies |-> 1, cut_interval |-> 0],
   [printer |-> FALSE, attrs |-> TRUE, driver_data |-> TRUE, copies |-> 1, cut_interval |-> 0],
   [printer |-> TRUE, attrs |-> TRUE, driver_data |-> TRUE, copies |-> 0, cut_interval |-> 0]}

NoLine   == [buffer_used |-> -1, topix_prev |-> <<>>, topix_out |-> <<>>,
             topix_last |-> <<>>, line_in |-> [y |-> -1, line |-> <<>>]]
NoDither == [phase |-> "idle"]

LineIdle ==
  /\ buffer_used = NoLine.buffer_used
  /\ topix_prev = NoLine.topix_prev
  /\ topix_out = NoLine.topix_out
  /\ topix_last = NoLine.topix_last
  /\ line_in = NoLine.line_in
GeoIdle ==
  /\ g_printer_state = NoCache
  /\ files = [p \in Printers |-> NoFile]
  /\ geo = NoGeo
  /\ hist = NoHist
DitherIdle == dith = NoDither
\* the source has no byte order conversion (no htons, no configure test):
\* it is built unchanged for hosts of either byte order
HostByteOrders == {"little", "big"}
SideIdle ==
  /\ stat = NoStatus
  /\ checks = NoChecks
  /\ host \in HostByteOrders

\* no raster job is running
JobIdle ==
  /\ header = HeaderOf(1, 1, "K", 1)
  /\ jobdata = "none"
  /\ gmode = TEC_GMODE_TOPIX
  /\ buffer_len = 0
  /\ buffer = <<>>
  /\ last_buffer = <<>>
  /\ comp_buffer = <<>>
  /\ y_offset = 0
  /\ device = <<>>
  /\ page = "closed"
  /\ line_y = 0
  /\ ret = TRUE

\* the job as a successful tpcl_rstartjob_cb leaves it
JobStarted(h, mode) ==
  /\ header = h
  /\ jobdata = "set"
  /\ gmode = mode
  /\ buffer_len = BufferLen(h)
  /\ buffer = Zeros(h.cupsBytesPerLine)
  /\ last_buffer = IF mode = TEC_GMODE_TOPIX THEN Zeros(h.cupsBytesPerLine) ELSE <<>>
  /\ comp_buffer = <<>>
  /\ y_offset = 0
  /\ device = <<>>          \* the log starts when the callback has returned
  /\ page = "closed"
  /\ line_y = 0
  /\ ret = TRUE

(***************************************************************************)
(* SpecPage: one raster job from the return of tpcl_rstartjob_cb on.       *)
(***************************************************************************)
InitPage ==
  /\ \E n \in ShortLengths \cup {LongLineBytes} :
       \E mode \in {TEC_GMODE_TOPIX, TEC_GMODE_HEX_AND, TEC_GMODE_NIBBLE_AND} :
         /\ mode # TEC_GMODE_TOPIX => n \in ShortLengths
         /\ JobStarted(HeaderOf(n, 1, "K", PageHeight), mode)
  /\ LineIdle /\ GeoIdle /\ DitherIdle /\ SideIdle

StartPage == tpcl_rstartpage_cb
WriteLine ==
  /\ page = "open"
  /\ line_y < header.cupsHeight
  /\ \E line \in LinesOf(header.cupsBytesPerLine) : tpcl_rwriteline_cb(line_y, line)
EndPage ==
  /\ line_y = header.cupsHeight \/ jobdata = "freed"
  /\ \E env \in EndPageEnvs : tpcl_rendpage_cb(env)
EndJob == tpcl_rendjob_cb

NextPage == StartPage \/ WriteLine \/ EndPage \/ EndJob
SpecPage == InitPage /\ [][NextPage]_vars

(***************************************************************************)
(* Spec: jobs on two printers served by one process.  Every job is started *)
(* with tpcl_rstartjob_cb and ended with tpcl_rendjob_cb; the process may  *)
(* be restarted between jobs, which resets g_printer_state and keeps the   *)
(* state files.                                                            *)
(***************************************************************************)
BaseEnv ==
  [header |-> HeaderOf(2, 1, "K", PageHeight),
   printer |-> TRUE, attrs |-> TRUE, calloc |-> TRUE, malloc |-> TRUE,
   graphics_mode |-> "topix", label_gap |-> 50, roll_margin |-> 10,
   feed_adjustment |-> 0, cut_position_adjustment |-> 0, backfeed_adjustment |-> 0,
   print_darkness |-> 0, driver_data |-> TRUE, feed_on_change |-> "yes",
   can_write |-> TRUE]

\* BaseEnv on a page of the given size in points
PageEnv(size) == [BaseEnv EXCEPT !.header.cupsPageSize = size]

\* the jobs of the model: three labels that pass every check, and one job
\* for each way tpcl_rstartjob_cb can fail
StartJobEnvs ==
  {BaseEnv,
   PageEnv(<<144, 432>>),
   [BaseEnv EXCEPT !.label_gap = 30],
   [BaseEnv EXCEPT !.feed_on_change = "no"],
   [BaseEnv EXCEPT !.can_write = FALSE],
   [BaseEnv EXCEPT !.feed_adjustment = 5, !.print_darkness = 3],
   [BaseEnv EXCEPT !.graphics_mode = "hex-and", !.header.HWResolution = <<203, 203>>],
   [BaseEnv EXCEPT !.printer = FALSE],
   [BaseEnv EXCEPT !.attrs = FALSE],
   [BaseEnv EXCEPT !.calloc = FALSE],
   [BaseEnv EXCEPT !.header.HWResolution = <<203, 203>>],
   [BaseEnv EXCEPT !.malloc = FALSE],
   [BaseEnv EXCEPT !.header.HWResolution = <<150, 150>>],
   [BaseEnv EXCEPT !.header.HWResolution = <<150, 300>>],
   PageEnv(<<144, 1287>>),
   PageEnv(<<144, 1300>>),
   [PageEnv(<<144, 1293>>) EXCEPT !.label_gap = 10],
   [PageEnv(<<144, 2835>>) EXCEPT !.graphics_mode = "hex-and",
                                  !.header.HWResolution = <<203, 203>>],
   [PageEnv(<<144, 432>>) EXCEPT !.feed_adjustment = 5, !.print_darkness = 3,
                                 !.driver_data = FALSE]}

Init ==
  /\ JobIdle /\ LineIdle /\ GeoIdle /\ DitherIdle /\ SideIdle

StartJob ==
  /\ \E p \in Printers : \E env \in StartJobEnvs : tpcl_rstartjob_cb(p, env)
  /\ UNCHANGED <<lineVars, dith, sideVars>>

\* the printer application exits and is started again
Restart ==
  /\ jobdata # "set"
  /\ g_printer_state.initialized
  /\ g_printer_state' = NoCache
  /\ geo' = NoGeo
  /\ jobdata' = "none"
  /\ device' = <<>>
  /\ ret' = TRUE
  /\ UNCHANGED <<header, gmode, buffer_len, buffer, last_buffer, comp_buffer,
                 y_offset, page, line_y, files, hist, lineVars, dith, sideVars>>

Next == StartJob \/ EndJob \/ Restart
Spec == Init /\ [][Next]_vars

(***************************************************************************)
(* SpecOrder: jobs that differ in the printer settings tpcl_rstartjob_cb   *)
(* reads for its commands: each adjustment alone, darkness alone, both,    *)
(* the feed option on and off, two label sizes, and a printer whose driver *)
(* data cannot be read.                                                    *)
(***************************************************************************)
OrderEnvs ==
  {BaseEnv,
   PageEnv(<<144, 432>>),
   [BaseEnv EXCEPT !.feed_on_change = "no"],
   [BaseEnv EXCEPT !.feed_adjustment = 5],
   [BaseEnv EXCEPT !.cut_position_adjustment = -3],
   [BaseEnv EXCEPT !.backfeed_adjustment = 2],
   [BaseEnv EXCEPT !.print_darkness = -2],
   [PageEnv(<<144, 432>>) EXCEPT !.feed_adjustment = 5, !.print_darkness = 3],
   [BaseEnv EXCEPT !.driver_data = FALSE],
   [BaseEnv EXCEPT !.print_darkness = 3, !.driver_data = FALSE],
   PageEnv(<<144, 1300>>)}

OrderStartJob ==
  /\ \E p \in Printers : \E env \in OrderEnvs : tpcl_rstartjob_cb(p, env)
  /\ UNCHANGED <<lineVars, dith, sideVars>>

NextOrder == OrderStartJob \/ EndJob \/ Restart
SpecOrder == Init /\ [][NextOrder]_vars

(***************************************************************************)
(* SpecState: the geometry tracker of tpcl-state.c.  Besides the tracker   *)
(* the state files are written from outside (an editor, a restored backup, *)
(* a write cut short): Tamper.                                             *)
(***************************************************************************)
\* the geometries the tracker is called with: a label, the same label one
\* unit wider, and the same label with another gap
TrackerGeometries ==
  {GeometryOf(1016, 1524, 50, 10), GeometryOf(1017, 1524, 50, 10),
   GeometryOf(1016, 1524, 30, 10)}

\* the file with the line of key k removed
DropLine(file, k) ==
  [file EXCEPT !.lines = SelectSeq(file.lines, LAMBDA l : l.key # StateKeys[k])]
\* the file with text as the value of key k
SetText(file, k, text) ==
  [file EXCEPT !.lines =
     [i \in 1..Len(file.lines) |->
        IF file.lines[i].key = StateKeys[k]
        THEN [key |-> StateKeys[k], text |-> text] ELSE file.lines[i]]]

\* values that are no decimal integer, and one that is a negative integer
BadTexts == {<<>>, <<"a", "b", "c">>, <<"1", "2", "a", "b", "c">>, <<"-", "5">>}
TamperedKeys == {1, 4}
TrackedPrinters == {"P"}      \* the printers SpecState calls the tracker for

TamperedFiles ==
  LET good == StateFileOf(StateOf(1016, 1524, 50, 10, TRUE))
  IN {DropLine(good, k) : k \in TamperedKeys}
       \cup {SetText(good, k, t) : k \in TamperedKeys, t \in BadTexts}

InitState ==
  /\ JobIdle /\ LineIdle /\ GeoIdle /\ DitherIdle /\ SideIdle

CheckAndUpdate ==
  /\ \E p \in TrackedPrinters : \E gm \in TrackerGeometries : \E can_write \in BOOLEAN :
       tpcl_state_check_and_update(p, gm.print_width, gm.print_height,
                                   gm.label_gap, gm.roll_margin, can_write)
  /\ UNCHANGED <<jobVars, lineVars, dith, sideVars>>

StateDelete ==
  /\ \E p \in TrackedPrinters : tpcl_state_delete(p)
  /\ UNCHANGED <<jobVars, lineVars, dith, sideVars>>

Tamper ==
  /\ \E p \in TrackedPrinters : \E f \in TamperedFiles :
       /\ files' = [files EXCEPT ![p] = f]
       /\ hist' = [hist EXCEPT !.clean[p] = FALSE]
  /\ geo' = NoGeo
  /\ UNCHANGED <<g_printer_state, jobVars, lineVars, dith, sideVars>>

NextState == CheckAndUpdate \/ StateDelete \/ Tamper
SpecState == InitState /\ [][NextState]_vars

(***************************************************************************)
(* SpecFill: a TOPIX page whose band is FillMargin bytes or less below the *)
(* flush threshold.  The initial states are the states tpcl_rwriteline_cb  *)
(* reaches from tpcl_rstartpage_cb with a lines that alternate between     *)
(* all-0xFF and all-0x00 (each differs from its predecessor in every byte  *)
(* and appends the same bytes) followed by b repeats of the last line      *)
(* (each appends the byte 0x00): no prefix exceeds the threshold, so no    *)
(* flush has happened, and FillTail lines of the page are still to come.   *)
(***************************************************************************)
FillMargin == 3          \* initial band lengths: threshold - FillMargin .. threshold
FillTail   == 3          \* lines of the page still to be written

FillLengths == {1, 8, 15, 16}    \* bytes per line

\* the lines written in SpecFill
FillLines(n) == {Zeros(n), Fill(n, 255), [i \in 1..n |-> IF i = 1 THEN 255 ELSE 0]}

\* the bytes a line appends that differs from its predecessor in every byte
FullChunk(n) == TopixLineBytes(Fill(n, 255), Zeros(n), n)

InitFill ==
  \E n \in FillLengths :
    \E t \in (BufferThreshold(n) - FillMargin)..BufferThreshold(n) :
      LET chunk == FullChunk(n)
          a     == t \div Len(chunk)
          b     == t % Len(chunk)
          h     == HeaderOf(n, 1, "K", a + b + FillTail)
          last  == IF a % 2 = 1 THEN Fill(n, 255) ELSE Zeros(n)
      IN /\ header = h
         /\ jobdata = "set"
         /\ gmode = TEC_GMODE_TOPIX
         /\ buffer_len = BufferLen(h)
         /\ buffer = last
         /\ last_buffer = last
         /\ comp_buffer = Repeat(chunk, a) \o Repeat(<<0>>, b)
         /\ y_offset = 0
         /\ device = <<[cmd |-> "C"]>>
         /\ page = "open"
         /\ line_y = a + b
         /\ ret = TRUE
         /\ buffer_used = t
         /\ topix_prev = IF b > 0 THEN last
                         ELSE IF a % 2 = 1 THEN Zeros(n) ELSE Fill(n, 255)
         /\ topix_out = IF b > 0 THEN <<0>> ELSE chunk
         /\ topix_last = last
         /\ line_in = [y |-> a + b - 1, line |-> last]
         /\ GeoIdle /\ DitherIdle /\ SideIdle

FillWriteLine ==
  /\ page = "open"
  /\ jobdata = "set"
  /\ line_y < header.cupsHeight
  /\ \E line \in FillLines(header.cupsBytesPerLine) : tpcl_rwriteline_cb(line_y, line)

NextFill == FillWriteLine \/ EndPage \/ EndJob
SpecFill == InitFill /\ [][NextFill]_vars

(***************************************************************************)
(* SpecBand: the bands of TOPIX pages.  A job starts either as in SpecFill *)
(* (inside a long page whose first band is about to reach the threshold)   *)
(* or with short pages, which are flushed by their last line only and      *)
(* follow each other within the job.                                       *)
(***************************************************************************)
InitBand ==
  \/ InitFill
  \/ /\ \E n \in FillLengths :
          JobStarted(HeaderOf(n, 1, "K", PageHeight), TEC_GMODE_TOPIX)
     /\ LineIdle /\ GeoIdle /\ DitherIdle /\ SideIdle

\* further pages are followed for the short pages only
BandStartPage ==
  /\ header.cupsHeight = PageHeight
  /\ tpcl_rstartpage_cb

NextBand == BandStartPage \/ FillWriteLine \/ EndPage \/ EndJob
SpecBand == InitBand /\ [][NextBand]_vars

(***************************************************************************)
(* SpecNibble: pages in the two nibble modes.  The first byte of the first *)
(* line of a page takes every byte value; the other bytes of that line     *)
(* range over Palette and the lines after it are blank.                    *)
(***************************************************************************)
NibbleLines(n, y) ==
  IF y = 0
  THEN {[i \in 1..n |-> IF i = 1 THEN b ELSE rest[i]] :
          b \in Byte, rest \in [1..n -> Palette]}
  ELSE {Zeros(n)}

InitNibble ==
  /\ \E n \in ShortLengths :
       \E mode \in {TEC_GMODE_NIBBLE_AND, TEC_GMODE_NIBBLE_OR} :
         \E cs \in {"K", "SW"} :
           JobStarted(HeaderOf(n, 1, cs, PageHeight), mode)
  /\ LineIdle /\ GeoIdle /\ DitherIdle /\ SideIdle

NibbleWriteLine ==
  /\ page = "open"
  /\ line_y < header.cupsHeight
  /\ \E line \in NibbleLines(header.cupsBytesPerLine, line_y) :
       tpcl_rwriteline_cb(line_y, line)

NextNibble == StartPage \/ NibbleWriteLine \/ EndPage \/ EndJob
SpecNibble == InitNibble /\ [][NextNibble]_vars

(***************************************************************************)
(* SpecScenario: TOPIX pages of 800 dots (100 bytes per line) at 300 dpi.  *)
(* The lines are all black, blank, or black at the hot positions.          *)
(***************************************************************************)
ScenarioLengths == {100}
ScenarioLines(n) == {Fill(n, 255), Zeros(n)} \cup LinesOf(n)

InitScenario ==
  /\ \E n \in ScenarioLengths :
       JobStarted(HeaderOf(n, 1, "K", PageHeight), TEC_GMODE_TOPIX)
  /\ LineIdle /\ GeoIdle /\ DitherIdle /\ SideIdle

ScenarioWriteLine ==
  /\ page = "open"
  /\ line_y < header.cupsHeight
  /\ \E line \in ScenarioLines(header.cupsBytesPerLine) :
       tpcl_rwriteline_cb(line_y, line)

NextScenario == StartPage \/ ScenarioWriteLine \/ EndPage \/ EndJob
SpecScenario == InitScenario /\ [][NextScenario]_vars

(***************************************************************************)
(* SpecWide: TOPIX pages whose lines end inside a level-3 group (12        *)
(* bytes), fill the 8 x 8 x 8 scratch array exactly (512 bytes), or are    *)
(* longer than it (520 bytes).                                             *)
(***************************************************************************)
WideLengths == {12, 512, 520}
\* the first byte, the last byte the scratch array has room for, and the
\* last byte of the line
WideHot(n) == {1, 512, n} \cap (1..n)
WideLines(n) ==
  {[i \in 1..n |-> IF i \in hot THEN 255 ELSE 0] : hot \in SUBSET WideHot(n)}
    \cup {[i \in 1..n |-> IF i \in WideHot(n) THEN 1 ELSE 0]}

InitWide ==
  /\ \E n \in WideLengths :
       JobStarted(HeaderOf(n, 1, "K", PageHeight), TEC_GMODE_TOPIX)
  /\ LineIdle /\ GeoIdle /\ DitherIdle /\ SideIdle

WideWriteLine ==
  /\ page = "open"
  /\ line_y < header.cupsHeight
  /\ \E line \in WideLines(header.cupsBytesPerLine) :
       tpcl_rwriteline_cb(line_y, line)

NextWide == StartPage \/ WideWriteLine \/ EndPage \/ EndJob
SpecWide == InitWide /\ [][NextWide]_vars

(***************************************************************************)
(* SpecDither: one run of tpcl_setup_driver_common for every choice of     *)
(* the two algorithm options.                                              *)
(***************************************************************************)
InitDither ==
  /\ \E algo \in DitherAlgos, algo_photo \in DitherAlgos :
       \E level \in DitherThresholds, prior \in PriorLevels :
         dith = [phase |-> "gdither", algo |-> algo, algo_photo |-> algo_photo,
                 level |-> level, pc |-> "call", n |-> 0, i |-> 0,
                 M |-> <<>>, pts |-> <<>>,
                 gdither |-> dither_threshold16(prior),
                 pdither |-> dither_threshold16(prior)]
  /\ JobIdle /\ LineIdle /\ GeoIdle /\ SideIdle

\* dither_bayer16, lines 23-32: the seed and n = 2
BayerSeed ==
  /\ Building("bayer", "call")
  /\ dith' = [dith EXCEPT !.M = BayerSeedMatrix, !.n = 2, !.pc = "double"]
  /\ UNCHANGED <<jobVars, lineVars, geoVars, sideVars>>

\* dither_bayer16, lines 33-47: one iteration of the while loop
BayerStep ==
  /\ Building("bayer", "double")
  /\ dith.n < DitherSize
  /\ dith' = [dith EXCEPT !.M = BayerDouble(dith.M, dith.n), !.n = 2 * dith.n]
  /\ UNCHANGED <<jobVars, lineVars, geoVars, sideVars>>

\* dither_bayer16, lines 51-53
BayerFinish ==
  /\ Building("bayer", "double")
  /\ dith.n >= DitherSize
  /\ DitherReturn(BayerScale(dith.M))
  /\ UNCHANGED <<jobVars, lineVars, geoVars, sideVars>>

\* dither_clustered16, lines 64-74
ClusteredWeights ==
  /\ Building("clustered", "call")
  /\ dith' = [dith EXCEPT !.pts = ClusteredPoints, !.i = 0, !.pc = "sort"]
  /\ UNCHANGED <<jobVars, lineVars, geoVars, sideVars>>

\* dither_clustered16, lines 77-79: one iteration of the loop over i
ClusteredSortStep ==
  /\ Building("clustered", "sort")
  /\ dith.i < Len(dith.pts)
  /\ dith' = [dith EXCEPT
                !.pts = ClusteredSortPass(dith.pts, dith.i, dith.i + 1),
                !.i = dith.i + 1]
  /\ UNCHANGED <<jobVars, lineVars, geoVars, sideVars>>

\* dither_clustered16, lines 82-83
ClusteredFinish ==
  /\ Building("clustered", "sort")
  /\ dith.i >= Len(dith.pts)
  /\ DitherReturn(ClusteredAssign(DitherTarget, dith.pts))
  /\ UNCHANGED <<jobVars, lineVars, geoVars, sideVars>>

\* dither_threshold16(dither, (unsigned char)dither_threshold)
Threshold ==
  /\ Building("threshold", "call")
  /\ DitherReturn(dither_threshold16(dith.level % 256))
  /\ UNCHANGED <<jobVars, lineVars, geoVars, sideVars>>

NextDither ==
  \/ BayerSeed \/ BayerStep \/ BayerFinish
  \/ ClusteredWeights \/ ClusteredSortStep \/ ClusteredFinish
  \/ Threshold
SpecDither == InitDither /\ [][NextDither]_vars

(***************************************************************************)
(* SpecLine: one raster job from the return of tpcl_rstartjob_cb on, for   *)
(* every kind of page header: 1, 4 and 8 bits per pixel, the colour spaces *)
(* K, SW and W, widths that are and are not multiples of 8, in hex and in  *)
(* TOPIX mode.  The host may end a page after any number of lines and may  *)
(* go on calling after a callback has failed.                              *)
(***************************************************************************)
LineWidths == {8, 12, 16}            \* cupsWidth in pixels
LineDepths == {1, 4, 8}              \* cupsBitsPerPixel
LineColorSpaces == {"K", "SW", "W"}  \* cupsColorSpace
LineModes == {TEC_GMODE_HEX_AND, TEC_GMODE_TOPIX}
Garbage == {0, 255}                  \* what malloc may have left in buffer

\* the 16 x 16 Bayer matrix of dither_bayer16
BayerMatrix ==
  BayerScale(BayerDouble(BayerDouble(BayerDouble(BayerSeedMatrix, 2), 4), 8))

\* cupsBytesPerLine of a page of the given width and depth
BytesPerLine(width, bpp) == (width * bpp + 7) \div 8

LineHeader(width, bpp, cs) ==
  [HeaderOf(BytesPerLine(width, bpp), bpp, cs, PageHeight)
     EXCEPT !.cupsWidth = width, !.dither = BayerMatrix]

\* raster lines of n bytes: uniform ones, a ramp, and one whose only
\* non-zero bytes are behind the first eight
LineInputs(n) ==
  {Fill(n, v) : v \in {0, 100, 255}}
    \cup {[x \in 1..n |-> (37 * x) % 256], [x \in 1..n |-> IF x > 8 THEN 255 ELSE 0]}

InitLine ==
  /\ \E width \in LineWidths, bpp \in LineDepths, cs \in LineColorSpaces,
        mode \in LineModes, g \in Garbage :
       LET h == LineHeader(width, bpp, cs)
       IN /\ header = h
          /\ jobdata = "set"
          /\ gmode = mode
          /\ buffer_len = BufferLen(h)
          /\ buffer = Fill(h.cupsBytesPerLine, g)
          /\ last_buffer = IF mode = TEC_GMODE_TOPIX
                           THEN Zeros(h.cupsBytesPerLine) ELSE <<>>
  /\ comp_buffer = <<>>
  /\ y_offset = 0
  /\ device = <<>>
  /\ page = "closed"
  /\ line_y = 0
  /\ ret = TRUE
  /\ LineIdle /\ GeoIdle /\ DitherIdle /\ SideIdle

LineWriteLine ==
  /\ page = "open"
  /\ line_y < header.cupsHeight
  /\ \E line \in LineInputs(header.cupsBytesPerLine) : tpcl_rwriteline_cb(line_y, line)
LineEndPage == \E env \in EndPageEnvs : tpcl_rendpage_cb(env)

NextLine == StartPage \/ LineWriteLine \/ LineEndPage \/ EndJob
SpecLine == InitLine /\ [][NextLine]_vars

(***************************************************************************)
(* SpecStatus: the host calls tpcl_status_cb again and again; the device   *)
(* may fail to open, and every papplDeviceRead may return an error, no     *)
(* data, or one of the replies below.                                      *)
(***************************************************************************)
\* a reply of n bytes with SOH, STX and the status code, filled with "0"
StatusReply(code, n) == <<1, 2>> \o code \o Fill(n - 4, 48)

StatusReplies ==
  {StatusReply(code, 23) :
     code \in ReadyCodes \cup {StatusCode(0, 1), StatusCode(0, 4), StatusCode(1, 3),
                               StatusCode(9, 9)}}
    \cup {StatusReply(StatusCode(0, 0), 13), StatusReply(StatusCode(4, 1), 12),
          StatusReply(StatusCode(0, 0), StatusBufferSize),
          <<1>>, <<1, 2, 48, 48>>,
          [StatusReply(StatusCode(0, 0), 23) EXCEPT ![1] = 2],
          [StatusReply(StatusCode(0, 0), 23) EXCEPT ![2] = 3],
          [StatusReply(StatusCode(0, 0), 23) EXCEPT ![4] = 0]}

\* what one papplDeviceRead may return: an error, no data, a reply
DeviceReads ==
  {[bytes |-> -1, data |-> <<>>], [bytes |-> 0, data |-> <<>>]}
    \cup {[bytes |-> Len(r), data |-> r] : r \in StatusReplies}

InitStatus == JobIdle /\ LineIdle /\ GeoIdle /\ DitherIdle /\ SideIdle

StatusEnter ==
  /\ tpcl_status_cb_enter
  /\ UNCHANGED <<jobVars, lineVars, geoVars, dith, checks, host>>
StatusOpen ==
  /\ \E ok \in BOOLEAN : tpcl_status_cb_open(ok)
  /\ UNCHANGED <<jobVars, lineVars, geoVars, dith, checks, host>>
StatusQuery ==
  /\ tpcl_status_cb_query
  /\ UNCHANGED <<jobVars, lineVars, geoVars, dith, checks, host>>
StatusPoll ==
  /\ \E read \in DeviceReads : tpcl_status_cb_poll(read)
  /\ UNCHANGED <<jobVars, lineVars, geoVars, dith, checks, host>>
StatusCheck ==
  /\ tpcl_status_cb_check
  /\ UNCHANGED <<jobVars, lineVars, geoVars, dith, checks, host>>

NextStatus == StatusEnter \/ StatusOpen \/ StatusQuery \/ StatusPoll \/ StatusCheck
SpecStatus == InitStatus /\ [][NextStatus]_vars

\* SpecStatusLive: the callback runs in one thread, papplDeviceRead and
\* usleep return, so a callback that has been entered takes its next step
SpecStatusLive ==
  InitStatus /\ [][NextStatus]_vars
    /\ WF_vars(StatusOpen \/ StatusQuery \/ StatusPoll \/ StatusCheck)

(***************************************************************************)
(* SpecRace: two threads check the geometry of printer "P" at the same     *)
(* time, in every interleaving of their loads and saves.  The state file   *)
(* is absent or holds the complete record of one of the geometries.        *)
(***************************************************************************)
RacePrinter == "P"
RaceGeometries == {GeometryOf(1016, 1524, 50, 10), GeometryOf(1270, 1524, 50, 10)}

InitRace ==
  /\ JobIdle /\ LineIdle /\ DitherIdle /\ SideIdle
  /\ g_printer_state = NoCache
  /\ geo = NoGeo
  /\ hist = NoHist
  /\ \E f \in {NoFile} \cup {StateFileOf(RecordOf(gm)) : gm \in RaceGeometries} :
       files = [p \in Printers |-> IF p = RacePrinter THEN f ELSE NoFile]

RaceEnter ==
  /\ \E t \in Threads, gm \in RaceGeometries : check_enter(t, gm)
  /\ UNCHANGED <<jobVars, lineVars, g_printer_state, geo, hist, dith, stat, host>>
RaceLoad ==
  /\ \E t \in Threads : check_load(t, RacePrinter)
  /\ UNCHANGED <<jobVars, lineVars, g_printer_state, geo, hist, dith, stat, host>>
RaceSaveOpen ==
  /\ \E t \in Threads : check_save_open(t, RacePrinter)
  /\ UNCHANGED <<jobVars, lineVars, g_printer_state, geo, hist, dith, stat, host>>
RaceSaveClose ==
  /\ \E t \in Threads : check_save_close(t, RacePrinter)
  /\ UNCHANGED <<jobVars, lineVars, g_printer_state, geo, hist, dith, stat, host>>

NextRace == RaceEnter \/ RaceLoad \/ RaceSaveOpen \/ RaceSaveClose
SpecRace == InitRace /\ [][NextRace]_vars

-----------------------------------------------------------------------------
(***************************************************************************)
(* Reference TOPIX decoder (the printer's side of the format): the level-1 *)
(* mask, then for every set bit its level-2 mask, for every set bit of     *)
(* that its level-3 mask, and for every set bit of that one XOR byte.      *)
(* Masks are read most significant bit first.                              *)
(***************************************************************************)
MaskBit(mask, k) == (mask \div Pow2(8 - k)) % 2 = 1   \* k = 1 is bit 7
ByteAt(bytes, pos) == IF pos <= Len(bytes) THEN bytes[pos] ELSE 0

RECURSIVE RefRow(_, _, _, _)
RefRow(bytes, pos, cl3, l3) ==
  IF l3 > 8 THEN [xs |-> <<>>, pos |-> pos]
  ELSE IF MaskBit(cl3, l3)
       THEN LET r == RefRow(bytes, pos + 1, cl3, l3 + 1)
            IN [xs |-> <<ByteAt(bytes, pos)>> \o r.xs, pos |-> r.pos]
       ELSE LET r == RefRow(bytes, pos, cl3, l3 + 1)
            IN [xs |-> <<0>> \o r.xs, pos |-> r.pos]

RECURSIVE RefPlane(_, _, _, _)
RefPlane(bytes, pos, cl2, l2) ==
  IF l2 > 8 THEN [xs |-> <<>>, pos |-> pos]
  ELSE IF MaskBit(cl2, l2)
       THEN LET row == RefRow(bytes, pos + 1, ByteAt(bytes, pos), 1)
                r   == RefPlane(bytes, row.pos, cl2, l2 + 1)
            IN [xs |-> row.xs \o r.xs, pos |-> r.pos]
       ELSE LET r == RefPlane(bytes, pos, cl2, l2 + 1)
            IN [xs |-> Zeros(8) \o r.xs, pos |-> r.pos]

RECURSIVE RefLine(_, _, _, _)
RefLine(bytes, pos, cl1, l1) ==
  IF l1 > 8 THEN [xs |-> <<>>, pos |-> pos]
  ELSE IF MaskBit(cl1, l1)
       THEN LET plane == RefPlane(bytes, pos + 1, ByteAt(bytes, pos), 1)
                r     == RefLine(bytes, plane.pos, cl1, l1 + 1)
            IN [xs |-> plane.xs \o r.xs, pos |-> r.pos]
       ELSE LET r == RefLine(bytes, pos, cl1, l1 + 1)
            IN [xs |-> Zeros(64) \o r.xs, pos |-> r.pos]

\* the line the decoder rebuilds from prev and the bytes of one line, and
\* the number of bytes it consumed
RefDecode(bytes, prev, width) ==
  LET r == RefLine(bytes, 2, ByteAt(bytes, 1), 1)
  IN [line     |-> [i \in 1..width |-> BitXor(prev[i], r.xs[i])],
      consumed |-> r.pos - 1]

\* C1: on a TOPIX page the accumulator (comp_buffer up to comp_buffer_ptr)
\* never holds more than 65535 bytes, the size of its allocation, neither
\* right after tpcl_topix_compress nor after the flush check.
C1_AccumulatorBounded ==
  /\ buffer_used <= CompBufferSize
  /\ Len(comp_buffer) <= CompBufferSize

\* a tpcl_topix_compress call has been observed in this state
Compressed == buffer_used # NoLine.buffer_used /\ jobdata # "freed"

\* C2: (round trip) whenever tpcl_topix_compress has compressed a line C
\* against the previous line P, the reference decoder applied to P and to
\* the bytes appended for C consumes exactly those bytes and yields C.
C2_RoundTrip ==
  Compressed =>
    LET d == RefDecode(topix_out, topix_prev, buffer_len)
    IN /\ d.consumed = Len(topix_out)
       /\ d.line = buffer

\* a long line that differs from its non-zero predecessor in both level-1
\* groups has been compressed
C2_Witness ==
  /\ Compressed
  /\ buffer_len = LongLineBytes
  /\ topix_prev # Zeros(LongLineBytes)
  /\ topix_out[1] = 192
  /\ RefDecode(topix_out, topix_prev, buffer_len).line = buffer

\* C3: a line identical to last_buffer appends exactly the byte 0x00 and
\* leaves last_buffer equal to that line.
C3_IdenticalLine ==
  (Compressed /\ SubSeq(topix_prev, 1, buffer_len) = buffer) =>
    /\ topix_out = <<0>>
    /\ SubSeq(topix_last, 1, buffer_len) = buffer

\* a non-blank line was written twice in a row
C3_Witness ==
  /\ Compressed
  /\ SubSeq(topix_prev, 1, buffer_len) = buffer
  /\ buffer # Zeros(buffer_len)
  /\ topix_out = <<0>>
  /\ topix_last = buffer

\* the last command on the device is a line of a nibble-mode page
NibbleSent ==
  /\ jobdata = "set"
  /\ gmode \in {TEC_GMODE_NIBBLE_AND, TEC_GMODE_NIBBLE_OR}
  /\ device # <<>>
  /\ device[Len(device)].cmd = "data"

\* C10: in the nibble modes a line of L packed bytes goes out as 2L bytes in
\* input order; byte b goes out as 0x30 + (b div 16) then 0x30 + (b mod 16),
\* both in 0x30..0x3F, and (first mod 16) * 16 + (second mod 16) is b again.
C10_NibbleEncoding ==
  NibbleSent =>
    LET out == device[Len(device)].bytes
    IN /\ Len(out) = 2 * Len(buffer)
       /\ \A i \in 1..Len(buffer) :
            /\ out[2 * i - 1] = 48 + (buffer[i] \div 16)
            /\ out[2 * i] = 48 + (buffer[i] % 16)
            /\ out[2 * i - 1] \in 48..63
            /\ out[2 * i] \in 48..63
            /\ (out[2 * i - 1] % 16) * 16 + (out[2 * i] % 16) = buffer[i]

\* the two-byte line 0xA5 0x01 has gone out as "0:50" "01"
C10_Witness ==
  /\ NibbleSent
  /\ buffer = <<165, 1>>
  /\ device[Len(device)].bytes = <<58, 53, 48, 49>>

\* the observation is of a tpcl_state_check_and_update call
Checked == geo.kind = "check"

\* C4: for a printer whose record only the tracker has written, with every
\* write successful, a check reports unchanged if and only if a valid record
\* is loaded and the geometry equals that of the most recent previous check;
\* a record is loaded if and only if there was a previous check.
C4_ChangedIffDifferent ==
  (Checked /\ geo.clean) =>
    /\ ~geo.changed <=> (geo.had_state /\ geo.prev = geo.geometry)
    /\ geo.had_state <=> geo.prev # NoGeometry

\* the third check of the scenario: after a first check and an identical
\* second one, a check with width + 1 has reported changed
C4_Witness ==
  /\ Checked /\ geo.clean
  /\ geo.prev = GeometryOf(1016, 1524, 50, 10)
  /\ geo.geometry = GeometryOf(1017, 1524, 50, 10)
  /\ geo.changed /\ geo.had_state /\ geo.wrote

\* a decimal integer: an optional sign and one or more digits, nothing else
WellFormedInt(text) ==
  LET body == IF text # <<>> /\ Head(text) \in {"+", "-"} THEN Tail(text) ELSE text
  IN body # <<>> /\ \A i \in 1..Len(body) : IsDigit(body[i])

\* a record with a required field missing or malformed
Malformed(file) ==
  /\ file.exists
  /\ \E k \in 1..Len(StateKeys) :
       \/ \A i \in 1..Len(file.lines) : file.lines[i].key # StateKeys[k]
       \/ \E i \in 1..Len(file.lines) :
            file.lines[i].key = StateKeys[k] /\ ~WellFormedInt(file.lines[i].text)

\* C8: a check that finds a record with a missing or malformed field loads
\* no state, reports changed and, when it can write, leaves a complete
\* record with the new geometry.
C8_MalformedIsAbsent ==
  (Checked /\ Malformed(geo.before)) =>
    /\ ~geo.had_state
    /\ geo.changed
    /\ geo.wrote =>
         files[geo.printer] =
           StateFileOf(StateOf(geo.geometry.print_width, geo.geometry.print_height,
                               geo.geometry.label_gap, geo.geometry.roll_margin, TRUE))

\* the observation is of a tpcl_rstartjob_cb call that got to the geometry
\* state and returned true
JobChecked == geo.kind = "job" /\ geo.ok

\* C5: a job whose geometry equals the persisted record reports unchanged
\* and does not write the state file.
C5_UnchangedWritesNothing ==
  (JobChecked /\ geo.before = StateFileOf(RecordOf(geo.geometry))) =>
    /\ ~geo.changed
    /\ ~geo.wrote
    /\ files = geo.files_before

\* C6: as long as every write succeeds, the result of a job on printer p
\* is "changed" exactly if p has no committed geometry or its committed
\* geometry differs from the job's, whatever jobs ran for other printers.
C6_KeyedByPrinter ==
  (JobChecked /\ geo.writes_ok) =>
    (geo.changed <=> geo.prev # geo.geometry)

\* C7: a tpcl_rstartjob_cb call that returns false leaves the state files
\* and g_printer_state as they were before the call.
C7_FailedJobKeepsRecord ==
  (geo.kind = "job" /\ ~geo.ok) =>
    /\ files = geo.files_before
    /\ g_printer_state = geo.cache_before

\* a job with a new label size failed after its first commands were sent,
\* in a process that holds the geometry of an earlier job
C7_Witness ==
  /\ geo.kind = "job" /\ ~geo.ok /\ ~ret
  /\ jobdata = "freed"
  /\ device # <<>>
  /\ geo.cache_before.initialized
  /\ geo.cache_before.last_print_width # PrintDim(144)
  /\ files[geo.printer] = StateFileOf(geo.cache_before)

-----------------------------------------------------------------------------
(***************************************************************************)
(* Dither matrices (SpecDither).                                           *)
(***************************************************************************)
\* 256 cells that take all of the 256 values take each value once
IsPermutation(matrix) ==
  /\ DOMAIN matrix = DitherCells
  /\ Cardinality(DitherCells) = 256
  /\ {matrix[c] : c \in DitherCells} = 0..255

Ordered(algo) == algo \in {"bayer", "clustered"}

\* C9: the matrix dither_bayer16 builds and the matrix dither_clustered16
\* builds each hold every value 0..255 in exactly one cell.
C9_DitherPermutation ==
  /\ (dith.phase \in {"pdither", "done"} /\ Ordered(dith.algo))
       => IsPermutation(dith.gdither)
  /\ (dith.phase = "done" /\ Ordered(dith.algo_photo))
       => IsPermutation(dith.pdither)

\* setup has built a Bayer matrix and a clustered matrix
C9_Witness ==
  /\ dith.phase = "done"
  /\ dith.algo = "bayer" /\ dith.algo_photo = "clustered"
  /\ dith.gdither # dith.pdither
  /\ dith.gdither[<<0, 1>>] = 128
  /\ dith.pdither[<<7, 7>>] < 4

-----------------------------------------------------------------------------
(***************************************************************************)
(* The 100 byte scenario (SpecScenario).                                   *)
(***************************************************************************)
\* an all-black line of 100 bytes was compressed against a blank predecessor
BlackOnBlank ==
  /\ Compressed
  /\ buffer_len = 100
  /\ buffer = Fill(100, 255)
  /\ SubSeq(topix_prev, 1, buffer_len) = Zeros(100)

\* an all-black line of 100 bytes was compressed against itself
BlackOnBlack ==
  /\ Compressed
  /\ buffer_len = 100
  /\ buffer = Fill(100, 255)
  /\ SubSeq(topix_prev, 1, buffer_len) = buffer

\* C11 as stated: the all-black first line of 100 bytes puts 0xFF as the
\* level-1 byte, and the identical second line appends exactly 0x00.
C11_BlackLineMaskFF ==
  /\ BlackOnBlank => topix_out[1] = 255
  /\ BlackOnBlack => topix_out = <<0>>

\* C11 amended: the all-black first line of 100 bytes puts 0xC0 as the
\* level-1 byte (100 bytes fill two of the eight 64 byte groups), followed
\* by the level-2 masks 0xFF and 0xF8, 13 level-3 masks and the 100 bytes;
\* the identical second line appends exactly 0x00.
C11_BlackLineMaskC0 ==
  /\ BlackOnBlank =>
       /\ topix_out[1] = 192
       /\ topix_out[2] = 255
       /\ Len(topix_out) = 1 + 2 + 13 + 100
       /\ Len(SelectSeq(topix_out, LAMBDA b : b = 255)) = 1 + 12 + 100
  /\ BlackOnBlack => topix_out = <<0>>

\* the second of two all-black lines has been compressed
C11_Witness ==
  /\ BlackOnBlack
  /\ line_y = 2
  /\ topix_out = <<0>>
  /\ comp_buffer = <<>>
  /\ Len(device) = 2 /\ device[2].cmd = "SG"
  /\ device[2].data[1] = 192
  /\ Len(device[2].data) = 117


-----------------------------------------------------------------------------
(***************************************************************************)
(* The scanline transformer (SpecLine).                                    *)
(***************************************************************************)
\* ceil(cupsWidth / 8)
PackedBytes(h) == (h.cupsWidth + 7) \div 8

\* C12: for 1 bit and 8 bit input, of any width, the length of the line
\* that is polarity-corrected and transmitted is ceil(pixel width / 8).
C12_BufferLenIsCeil ==
  (jobdata = "set" /\ header.cupsBitsPerPixel \in {1, 8})
    => buffer_len = PackedBytes(header)

\* the last callback was a tpcl_rwriteline_cb that returned true
LineWritten ==
  /\ jobdata = "set" /\ ret /\ page = "open"
  /\ line_in.y >= 0 /\ line_in.y = line_y - 1

\* the packed line the description asks for: bit 7 - x mod 8 of byte
\* x div 8 says whether sample x reaches the threshold, all other bits 0
PackedExpected(line, y, h) ==
  IF h.cupsBitsPerPixel = 8
  THEN [j \in 1..PackedBytes(h) |->
          OrAll([k \in 1..8 |->
                   LET x == 8 * (j - 1) + (k - 1)
                   IN IF x < h.cupsWidth /\ line[x + 1] >= h.dither[y % 16, x % 16]
                      THEN Pow2(7 - (x % 8)) ELSE 0])]
  ELSE line
\* ... and after the polarity correction
OutputExpected(line, y, h) ==
  LET packed == PackedExpected(line, y, h)
  IN IF h.cupsColorSpace = "SW"
     THEN [j \in 1..Len(packed) |-> 255 - packed[j]] ELSE packed

\* C13: after a successful WriteLine of 1 bit or 8 bit input the output
\* bytes are the packed line (8 bit: one bit per sample, set iff the sample
\* reaches matrix[y mod 16][x mod 16], MSB first, other bits 0; 1 bit: the
\* input), complemented byte by byte iff the colour space is SW.
C13_ScanlineTransform ==
  LineWritten
    => SubSeq(buffer, 1, PackedBytes(header))
         = OutputExpected(line_in.line, line_in.y, header)

\* C14: a WriteLine for a depth other than 1 and 8, or for a colour space
\* other than K and SW, returns failure; no raster data of the line reaches
\* the device and the accumulator stays empty.
C14_UnsupportedLineFails ==
  (line_in.y >= 0
     /\ (header.cupsBitsPerPixel \notin {1, 8} \/ header.cupsColorSpace \notin {"K", "SW"}))
    => /\ ~ret
       /\ jobdata = "freed"
       /\ comp_buffer = <<>>
       /\ \A i \in 1..Len(device) : device[i].cmd \notin {"data", "SG"}

\* a dithered line of a W page was refused in TOPIX mode
C14_Witness ==
  /\ header.cupsBitsPerPixel = 8 /\ header.cupsColorSpace = "W"
  /\ gmode = TEC_GMODE_TOPIX
  /\ line_in.y = 0 /\ line_in.line = Fill(header.cupsBytesPerLine, 255)
  /\ page = "open" /\ ~ret
  /\ device = <<[cmd |-> "C"]>>

\* C15: a callback that fails for a job with buffers releases them and
\* detaches the job data; from then on every callback returns failure,
\* writes nothing to the device and neither touches nor releases a buffer.
C15_FailureAbortsJob ==
  [][/\ (jobdata = "set" /\ ~ret')
          => (jobdata' = "freed" /\ buffer' = <<>> /\ last_buffer' = <<>>
              /\ comp_buffer' = <<>>)
     /\ jobdata = "freed"
          => (~ret' /\ UNCHANGED <<jobdata, buffer, last_buffer, comp_buffer, device>>)
    ]_vars

\* the first line of a 4 bit page was refused, and the EndPage that
\* followed returned failure without an XS command
C15_Witness ==
  /\ header.cupsBitsPerPixel = 4 /\ gmode = TEC_GMODE_HEX_AND
  /\ line_in.y = 0 /\ page = "closed" /\ ~ret
  /\ jobdata = "freed" /\ buffer = <<>>
  /\ Len(device) = 2 /\ device[2].cmd = "SGheader"

\* C16 as stated: in TOPIX mode, when EndPage has emitted the XS command
\* the accumulator is empty, whatever the number of lines written on the
\* page.
C16_FlushedBeforeIssue ==
  (gmode = TEC_GMODE_TOPIX /\ device # <<>> /\ device[Len(device)].cmd = "XS")
    => comp_buffer = <<>>

\* C16, amended: in TOPIX mode, when EndPage emits the XS command after
\* the last line of the page (y = cupsHeight - 1) has been written, the
\* accumulator is empty and the command before XS is the SG command that
\* ends with the bytes of that line.
C16_FlushedAfterLastLine ==
  (/\ gmode = TEC_GMODE_TOPIX /\ device # <<>> /\ device[Len(device)].cmd = "XS"
   /\ line_y = header.cupsHeight)
    => /\ comp_buffer = <<>>
       /\ Len(device) >= 3
       /\ LET sg == device[Len(device) - 1]
          IN /\ sg.cmd = "SG"
             /\ Len(sg.data) >= Len(topix_out)
             /\ SubSeq(sg.data, Len(sg.data) - Len(topix_out) + 1, Len(sg.data))
                  = topix_out

\* a dithered TOPIX page of cupsHeight lines was issued: C, SG, XS
C16_Witness ==
  /\ gmode = TEC_GMODE_TOPIX /\ header.cupsBitsPerPixel = 8
  /\ line_y = header.cupsHeight /\ page = "closed" /\ ret
  /\ Len(device) = 3 /\ device[2].cmd = "SG" /\ device[3].cmd = "XS"
  /\ Len(device[2].data) > Len(topix_out)

-----------------------------------------------------------------------------
(***************************************************************************)
(* The checks of tpcl_rstartjob_cb (Spec).                                 *)
(***************************************************************************)
\* geo observes the most recent tpcl_rstartjob_cb call of the process
JobRequested == geo.kind = "job"

\* C17: a TOPIX job starts only at 150 x 150 or 300 x 300 dpi; at any other
\* resolution StartJob returns false, has written nothing and leaves no
\* job data attached.
C17_TopixResolution ==
  (JobRequested /\ geo.request.mode = TEC_GMODE_TOPIX)
    => LET res == geo.request.HWResolution
           ok  == res = <<150, 150>> \/ res = <<300, 300>>
       IN /\ geo.ok => ok
          /\ ~ok => /\ ~geo.ok /\ ~ret
                    /\ device = <<>>
                    /\ jobdata # "set"
                    /\ buffer = <<>> /\ last_buffer = <<>> /\ comp_buffer = <<>>

\* a TOPIX job at 150 x 300 dpi was refused
C17_Witness ==
  /\ JobRequested /\ geo.request.mode = TEC_GMODE_TOPIX
  /\ geo.request.HWResolution = <<150, 300>>
  /\ ~ret /\ jobdata = "freed" /\ device = <<>>

\* the label pitch or the print height of the request exceeds the maximum
\* of its resolution
OutOfRange(req) ==
  IF req.HWResolution[2] = 300
  THEN req.label_pitch > 4572 \/ req.print_height > 4552
  ELSE req.label_pitch > 9990 \/ req.print_height > 9970

\* C18: when the label pitch exceeds 4572 (300 dpi) or 9990 (otherwise), or
\* the print height exceeds 4552 (300 dpi) or 9970, StartJob returns
\* false, has written no command and leaves no buffer and no job data.
C18_DimensionOutOfRange ==
  (JobRequested /\ OutOfRange(geo.request))
    => /\ ~geo.ok /\ ~ret
       /\ device = <<>>
       /\ jobdata # "set"
       /\ buffer = <<>> /\ last_buffer = <<>> /\ comp_buffer = <<>>

\* a 300 dpi job whose print height is too large while its pitch is not
C18_Witness ==
  /\ JobRequested /\ geo.request.HWResolution = <<300, 300>>
  /\ geo.request.print_height > 4552 /\ geo.request.label_pitch <= 4572
  /\ ~ret /\ jobdata = "freed" /\ device = <<>>

-----------------------------------------------------------------------------
(***************************************************************************)
(* The status query (SpecStatus).                                          *)
(***************************************************************************)
\* C19: tpcl_status_cb returns true exactly if it read a reply of at least
\* 13 bytes that starts with SOH, STX and carries one of the codes "00",
\* "02", "40", "41"; it reads no element of status[] that the device did
\* not fill; and when it has returned, the device it opened is closed and
\* was closed once (never, if the open failed).
C19_StatusNeverFaults ==
  /\ stat.closes <= stat.opens
  /\ stat.pc = "returned" =>
       /\ stat.printer_ready <=>
            /\ stat.opens = 1
            /\ stat.bytes >= 13
            /\ stat.status[1] = 1 /\ stat.status[2] = 2
            /\ \/ stat.status[3] = 48 /\ stat.status[4] \in {48, 50}
               \/ stat.status[3] = 52 /\ stat.status[4] \in {48, 49}
       /\ \A k \in stat.reads : k <= stat.bytes
       /\ stat.device = "closed"
       /\ stat.closes = stat.opens

\* after 3 polls without data the shortest valid reply arrived: ready
C19_Witness ==
  /\ stat.pc = "returned" /\ stat.printer_ready
  /\ stat.poll_attempts = 3 /\ stat.bytes = 13
  /\ stat.opens = 1 /\ stat.closes = 1 /\ stat.device = "closed"

-----------------------------------------------------------------------------
(***************************************************************************)
(* Concurrent geometry checks (SpecRace).                                  *)
(***************************************************************************)
\* C20: in every interleaving of two geometry checks for one printer, the
\* file a check loads is absent or a complete record, so that a check
\* reports changed only when the record is absent or differs from its
\* geometry.
C20_AtomicRecordWrites ==
  \A t \in Threads :
    checks[t].pc \in {"save", "write", "done"} =>
      /\ checks[t].seen.exists => load_state_from_file(checks[t].seen, NoCache).ok
      /\ checks[t].changed =>
           \/ ~checks[t].seen.exists
           \/ checks[t].seen # StateFileOf(RecordOf(checks[t].geometry))
-----------------------------------------------------------------------------
(***************************************************************************)
(* The byte layout of one compressed line, written out from the three      *)
(* levels of groups of the XOR sequence x of n bytes: level-3 group g      *)
(* holds the positions 8g .. 8g+7 (0-based), level-1 group i the level-3   *)
(* groups 8i .. 8i+7.                                                      *)
(***************************************************************************)
RECURSIVE ConcatAll(_)
ConcatAll(ss) == IF ss = <<>> THEN <<>> ELSE Head(ss) \o ConcatAll(Tail(ss))

\* x is the pair of the current and the previous line; its XOR at the
\* 0-based position k is non-zero exactly where the two lines differ
XorAt(x, k) == BitXor(x.cur[k + 1], x.last[k + 1])
ChangedAt(x, n, k) == k < n /\ x.cur[k + 1] # x.last[k + 1]
Changed3(x, n, g) == \E k \in 0..7 : ChangedAt(x, n, 8 * g + k)
Changed2(x, n, i) == \E j \in 0..7 : Changed3(x, n, 8 * i + j)
\* entry k (0 .. 7) of a parent sets the bit 7 - k
MsbFirstMask(set) == OrAll([k \in 1..8 |-> IF (k - 1) \in set THEN Pow2(8 - k) ELSE 0])
LayoutGroup3(x, n, g) ==
  IF ~Changed3(x, n, g) THEN <<>>
  ELSE <<MsbFirstMask({k \in 0..7 : ChangedAt(x, n, 8 * g + k)})>>
         \o ConcatAll([k \in 1..8 |-> IF ChangedAt(x, n, 8 * g + k - 1)
                                        THEN <<XorAt(x, 8 * g + k - 1)>> ELSE <<>>])
LayoutGroup2(x, n, i) ==
  IF ~Changed2(x, n, i) THEN <<>>
  ELSE <<MsbFirstMask({j \in 0..7 : Changed3(x, n, 8 * i + j)})>>
         \o ConcatAll([j \in 1..8 |-> LayoutGroup3(x, n, 8 * i + j - 1)])
LayoutLine(x, n) ==
  <<MsbFirstMask({i \in 0..7 : Changed2(x, n, i)})>>
    \o ConcatAll([i \in 1..8 |-> LayoutGroup2(x, n, i - 1)])
LayoutLength(x, n) ==
  1 + Cardinality({i \in 0..7 : Changed2(x, n, i)})
    + Cardinality({g \in 0..63 : Changed3(x, n, g)})
    + Cardinality({k \in 0..(n - 1) : ChangedAt(x, n, k)})

\* C21: (layout of a compressed line) when tpcl_rwriteline_cb compresses a
\* line of at most 512 bytes, the appended bytes are the level-1 mask,
\* then for each changed level-1 group in ascending order its level-2 mask
\* and for each of its changed level-2 groups the level-3 mask followed by
\* the non-zero XOR bytes in position order, all masks MSB first; their
\* number is 1 + changed level-1 groups + changed level-2 groups + changed
\* bytes; the bytes the accumulator held before stay in front of them
\* unmodified (in the accumulator or, after a flush, in the payload of
\* the emitted command).
C21_LineLayout ==
  [][(line_y' = line_y + 1 /\ gmode = TEC_GMODE_TOPIX /\ buffer_len <= 512) =>
       LET x == [cur |-> buffer', last |-> last_buffer]
       IN /\ topix_out' = LayoutLine(x, buffer_len)
          /\ Len(topix_out') = LayoutLength(x, buffer_len)
          /\ \/ comp_buffer' = comp_buffer \o topix_out'
             \/ /\ comp_buffer' = <<>>
                /\ Len(device') = Len(device) + 1
                /\ device'[Len(device')].data = comp_buffer \o topix_out'
     ]_vars

\* a 512 byte line was appended behind an earlier one and flushed with
\* it; it differs from its predecessor in the first byte (by 254) and in
\* the last byte of the last level-1 group (by 1)
C21_Witness ==
  /\ Compressed
  /\ buffer_len = 512
  /\ topix_prev # Zeros(512)
  /\ topix_out = <<129, 128, 128, 254, 1, 1, 1>>
  /\ device # <<>>
  /\ device[Len(device)].cmd = "SG"
  /\ device[Len(device)].data = <<128, 128, 128, 255>> \o topix_out
\* the steps of the page callbacks, recognised by what they change
TopixStartPageStep == gmode = TEC_GMODE_TOPIX /\ page = "closed" /\ page' = "open"
TopixLineStep == gmode = TEC_GMODE_TOPIX /\ line_y' = line_y + 1
TopixFlushStep == TopixLineStep /\ Len(device') = Len(device) + 1
AllZero(bytes) == \A i \in 1..Len(bytes) : bytes[i] = 0

\* C22: (band reset) right after every successful tpcl_rstartpage_cb of a
\* TOPIX job and right after every flush the accumulator is empty and
\* last_buffer is all zero; hence the first line of every band is
\* compressed against the all-zero line, and a band that holds one line
\* has the layout of that line against zeros as its payload.
C22_BandReset ==
  [][/\ (TopixStartPageStep \/ TopixFlushStep) =>
          (comp_buffer' = <<>> /\ AllZero(last_buffer'))
     /\ (TopixLineStep /\ comp_buffer = <<>>) =>
          /\ AllZero(topix_prev')
          /\ topix_out' = LayoutLine([cur |-> buffer', last |-> Zeros(buffer_len)],
                                     buffer_len)
          /\ TopixFlushStep => device'[Len(device')].data = topix_out'
    ]_vars

\* a threshold flush inside a page is followed by a non-blank line, the
\* first of the next band, which is compressed against the zero line
\* although the line before it was all black
C22_Witness ==
  /\ Compressed
  /\ Len(device) = 2
  /\ device[2].cmd = "SG" /\ Len(device[2].data) > 60000
  /\ line_y < header.cupsHeight
  /\ line_in.line = Fill(header.cupsBytesPerLine, 255)
  /\ AllZero(topix_prev)
  /\ comp_buffer = topix_out
  /\ topix_out = <<128, 128, 255, 255, 255, 255, 255, 255, 255, 255, 255>>

C24_BigEndianLength ==
  \A i \in 1..Len(device) :
    device[i].cmd = "SG" =>
      LET len == Len(device[i].data)
      IN /\ 1 <= len /\ len <= CompBufferSize
         /\ device[i].len = <<len \div 256, len % 256>>
\* the names of the commands on the device, in the order they were written
CommandNames(dev) == <<>> \o [i \in 1..Len(dev) |-> dev[i].cmd]

StatusReadAttempts == stat.poll_attempts + (IF stat.bytes # 0 THEN 1 ELSE 0)

\* the loop has been entered and left by this call, and the call returned
\* on its timeout path
StatusTimedOut ==
  stat.pc = "returned" /\ stat.sent # <<>> /\ stat.bytes = 0

\* C26: (the status query terminates) after the request the callback
\* makes at most 22 read attempts, keeps reading only while every read so
\* far returned zero bytes, returns not ready with all 22 attempts used
\* when none returned data, and every query that was sent ends with the
\* return of the callback.
C26_StatusTerminates ==
  /\ [](/\ StatusReadAttempts <= 22
        /\ stat.pc = "poll" => stat.bytes = 0
        /\ stat.bytes # 0 => stat.pc \in {"check", "returned"}
        /\ StatusTimedOut =>
             (stat.poll_attempts = 22 /\ ~stat.printer_ready
                /\ stat.device = "closed"))
  /\ ((stat.pc = "poll") ~> (stat.pc = "returned"))

\* all 22 reads returned nothing and the callback has returned not ready
C26_Witness ==
  /\ StatusTimedOut
  /\ stat.poll_attempts = 22
  /\ ~stat.printer_ready
\* four times the squared distance of the centre of cell <<y, x>> from the
\* centre (8, 8) of the tile
Distance4(c) ==
  (2 * c[2] + 1 - 16) * (2 * c[2] + 1 - 16) + (2 * c[1] + 1 - 16) * (2 * c[1] + 1 - 16)
\* cell a = <<y, x>> comes before cell b in row-major order
RowMajorBefore(a, b) == a[1] < b[1] \/ (a[1] = b[1] /\ a[2] < b[2])

\* a nearer cell has the lower threshold
RankedByDistance(m) ==
  \A a \in DitherCells : \A b \in DitherCells :
    Distance4(a) < Distance4(b) => m[a] < m[b]
\* of two cells at the same distance the first in row-major order has the
\* lower threshold
TiesInRowMajorOrder(m) ==
  \A a \in DitherCells : \A b \in DitherCells :
    (Distance4(a) = Distance4(b) /\ RowMajorBefore(a, b)) => m[a] < m[b]

\* the general-content matrix has been built by dither_clustered16
ClusteredBuilt == dith.phase \in {"pdither", "done"} /\ dith.algo = "clustered"

\* C27: (stable rank) the thresholds dither_clustered16 assigns rise with
\* the distance from the tile centre, and cells at equal distance are
\* ranked in row-major (y, x) order.
C27_StableRank ==
  ClusteredBuilt =>
    (RankedByDistance(dith.gdither) /\ TiesInRowMajorOrder(dith.gdither))
\* C28: (lines longer than the scratch array) for a line of more than 512
\* bytes the bytes tpcl_topix_compress appends are the layout of the first
\* 512 bytes of the line against the first 512 bytes of last_buffer, so
\* they do not depend on the bytes behind them, while last_buffer is
\* overwritten with the whole line.
C28_TailNotVisited ==
  (Compressed /\ buffer_len > 512) =>
    /\ topix_out = LayoutLine([cur  |-> SubSeq(buffer, 1, 512),
                               last |-> SubSeq(topix_prev, 1, 512)], 512)
    /\ topix_last = buffer

\* a line of 520 bytes differs from its predecessor in its last byte only:
\* the single byte 0x00 is appended, and last_buffer has taken the new byte
C28_Witness ==
  /\ Compressed
  /\ buffer_len = 520
  /\ SubSeq(buffer, 1, 519) = SubSeq(topix_prev, 1, 519)
  /\ buffer[1] = 255 /\ buffer[512] = 255
  /\ topix_prev[520] = 0 /\ buffer[520] = 255
  /\ topix_out = <<0>>
  /\ topix_last[520] = 255
\* tpcl_rstartjob_cb has returned (geo holds what the call did)
StartJobReturned == geo.kind = "job"

\* C29: (releases of tpcl_rstartjob_cb) on every return the copy of the
\* printer attributes obtained at entry has been deleted exactly once,
\* and on every return false the job data allocated by the call has been
\* freed exactly once and is no longer attached to the job.
C29_ReleasesOnEveryPath ==
  StartJobReturned =>
    /\ geo.attrs_deleted = geo.attrs_copies
    /\ ~geo.ok => (geo.job_frees = geo.job_allocs /\ jobdata # "set")
\* the step is the check of printer p for geometry gm
CheckStep(p, gm, can_write) ==
  tpcl_state_check_and_update(p, gm.print_width, gm.print_height,
                              gm.label_gap, gm.roll_margin, can_write)

\* C30: (failed write of the record) a check whose write of the record
\* fails reports changed all the same and leaves the state files as they
\* were; a check that has no usable record to compare with reports
\* changed also when it cannot write; and the check that follows a failed
\* write for the same printer with the same geometry reports changed
\* again.
C30_FailedWrite ==
  [][\A p \in TrackedPrinters : \A gm \in TrackerGeometries :
       /\ CheckStep(p, gm, FALSE) =>
            /\ files' = files
            /\ ~files[p].exists => geo'.changed
            /\ geo'.changed => ~geo'.wrote
       /\ \A can_write \in BOOLEAN :
            (/\ geo.kind = "check" /\ geo.printer = p /\ geo.geometry = gm
             /\ geo.changed /\ ~geo.wrote
             /\ CheckStep(p, gm, can_write)) => geo'.changed
    ]_vars

\* the write of a record failed twice in a row for the same printer and
\* geometry while the file holds the record of another label
C30_Witness ==
  /\ geo.kind = "check" /\ geo.changed /\ ~geo.wrote /\ geo.had_state
  /\ geo.prev = geo.geometry
  /\ ~geo.clean
  /\ files[geo.printer] = geo.before
  /\ files[geo.printer].exists
=============================================================================
